---- MODULE Spec2Model ----
(***************************************************************************)
(* Model of flp-log-gatherer.                                              *)
(*                                                                         *)
(*  - RsyncManager (src/src/rsync_manager.py): the job execution engine    *)
(*    (execute_jobs / execute_job) and the inspection engine               *)
(*    (explore_jobs / check_remote_file_exists).  One asyncio event loop   *)
(*    runs the tasks; every action below is the code between two           *)
(*    suspension points (await) of one task.                               *)
(*  - CompressionManager (src/src/compression_manager.py): the             *)
(*    incremental archiver, its tracking file and its containers.          *)
(***************************************************************************)
EXTENDS Integers, Sequences, FiniteSets, TLC

(***************************************************************************)
(* Bounds of the model.                                                    *)
(***************************************************************************)
MaxJobs == 2

MaxExplore == 2

MaxK == 2

MaxRetry == 2

MaxResults == 2

MaxClock == 1

MaxRuns == 2

MaxChanges == 1

MaxLogBlocks == 4

MaxDigits == 7

MaxLines == 3

VARIABLES
    command,            \* CLI command of this process: "sync" or "explore" (main.py)
    max_parallel_jobs,  \* self.max_parallel_jobs
    retry_count,        \* self.retry_count
    results,            \* self.results, the accumulator
    call,               \* batch call in progress: "idle", "execute", "explore"
    jobs,               \* the descriptors given to the batch call
    sem,                \* value of the asyncio.Semaphore of the batch call
    pc,                 \* position of each task of the batch
    attempts,           \* local `attempts` / loop variable `attempt` of each task
    proc,               \* the external process of the task's latest attempt
    outcome,            \* what each task returned
    returned,           \* value returned by the last batch call
    tried,              \* observed: attempts made by each task
    delays,             \* observed: retry delays slept by each task
    allconn,            \* observed: every attempt of the inspection so far ended
                        \*   in a connectivity failure (phrase in stderr, or timeout)
    plainRetried,       \* observed: a non-zero exit without any indicator was retried
    submitted,          \* observed: descriptors submitted to execute_jobs so far
    allReturned,        \* observed: concatenation of the lists execute_jobs returned
    now,                \* the clock, in seconds
    local,              \* the files under the base directory, outside archives/
    trackfile,          \* archives/.<host>_tracked.txt of each endpoint
    containers,         \* archives/<host>_<timestamp>.tar.gz: the members of each
    apc,                \* position of the create_incremental_archive call per endpoint
    aforce,             \* its argument `force`
    asel,               \* its local `files_to_archive`
    apath,              \* its local `archive_path` (endpoint and timestamp)
    aresult,            \* what the last call for the endpoint returned
    anew,               \* observed: the call created its container (none was there)
    based,              \* observed: a non-forced run of the endpoint completed with
                        \*   the tree unchanged, and no other run began since
    delta,              \* observed: files added to the endpoint since then, nothing
                        \*   else having changed
    achanged,           \* observed: the endpoint's tree changed while the call ran
    redo,               \* observed: the files written by the endpoint's last run,
                        \*   which ended between the container and the tracking save
    dpc,                \* position of the compress_all_hosts call
    dforce,             \* its argument `force`
    dtodo,              \* the part of `host_dirs` its loop has still to visit
    dresults,           \* its local `results`, and what it returned
    dlisting,           \* observed: the directories it found
    nruns,              \* archive runs begun so far
    nchanges,           \* files brought to the local tree so far
    archive_dir,        \* the directory <base_path>/archives exists
    logdir,             \* the directory logs/ of the failure log exists
    logfile,            \* logs/failures.log: the blocks written to it
    lastcall,           \* the last call of a utility function: its name, its
                        \*   argument and what it returned
    outOfOrder,         \* observed: a job of the execute_jobs batch completed
                        \*   before a job submitted ahead of it
    dry_run,            \* the argument dry_run of the sync command's batch calls
    localdirs           \* the local destination directories (job.local_path)
                        \*   that exist

cfgvars == <<command, max_parallel_jobs, retry_count, dry_run>>

\* what the tasks of a batch never touch
xvars == <<logdir, logfile, lastcall>>

evars == <<command, max_parallel_jobs, retry_count, results, call, jobs, sem, pc,
           attempts, proc, outcome, returned, tried, delays, allconn, plainRetried,
           submitted, allReturned, xvars, dry_run, localdirs, outOfOrder>>

avars == <<now, local, trackfile, containers, apc, aforce, asel, apath, aresult,
           anew, based, delta, achanged, redo, dpc, dforce, dtodo, dresults, dlisting,
           nruns, nchanges, archive_dir>>

dvars == <<dpc, dforce, dtodo, dresults, dlisting>>

vars == <<evars, avars>>

Jobs == 1..(IF MaxJobs >= MaxExplore THEN MaxJobs ELSE MaxExplore)

HostNames == <<"flp1", "flp2">>

\* The i-th descriptor a collaborator builds: one per (host, application, path).
Descriptor(i) ==
    [hostname |-> HostNames[(((i - 1) \div 2) % 2) + 1],
     app_name |-> "readout",
     remote_path |-> i]

\* job.local_path: get_app_storage_path(hostname, app_name), the same directory
\* for every descriptor of one application of one host
LocalPath(job) == <<job.hostname, job.app_name>>

NoOutcome == [kind |-> "none"]

\* logs/failures.log does not exist
NoLogFile == [exists |-> FALSE, blocks |-> <<>>]

\* no utility function was called
NoCall == [fn |-> "none"]

(***************************************************************************)
(* Texts: a text is the sequence of its characters or words.              *)
(***************************************************************************)
Whitespace == {" ", "\t", "\n"}

RECURSIVE LStrip(_)
LStrip(t) == IF t # <<>> /\ Head(t) \in Whitespace THEN LStrip(Tail(t)) ELSE t

RECURSIVE RStrip(_)
RStrip(t) ==
    IF t # <<>> /\ t[Len(t)] \in Whitespace THEN RStrip(SubSeq(t, 1, Len(t) - 1)) ELSE t

\* line.strip()
Strip(t) == LStrip(RStrip(t))

(***************************************************************************)
(* human_readable_size.  A size is the sequence of its digits in base      *)
(* 1024, the most significant first, <<0>> for zero: 1536 is <<1, 512>>.   *)
(* The float the code divides is its integer digits and the digits after   *)
(* the point, which is exact as long as the size has at most 53            *)
(* significant bits.  A formatted size is its integer part, its decimals   *)
(* and its unit: "1.5 KB" is [int |-> 1, dec |-> <<5>>, unit |-> "KB"].    *)
(***************************************************************************)
Base == 1024

\* mutant: the list of units stops at TB
Units_short == <<"B", "KB", "MB", "GB", "TB">>

\* units = ['B', 'KB', 'MB', 'GB', 'TB', 'PB']
Units == <<"B", "KB", "MB", "GB", "TB", "PB">>

\* the integer a sequence of digits stands for
RECURSIVE ValueOf(_)
ValueOf(ds) == IF ds = <<>> THEN 0 ELSE ValueOf(SubSeq(ds, 1, Len(ds) - 1)) * Base + ds[Len(ds)]

\* the digits of a non-negative integer
RECURSIVE Digits(_)
Digits(n) == IF n < Base THEN <<n>> ELSE Digits(n \div Base) \o <<n % Base>>

\* `while size >= 1024.0 and unit_index < len(units) - 1: size /= 1024.0;
\* unit_index += 1`: a division moves the point one digit to the left
RECURSIVE Scale(_, _, _)
Scale(ip, fr, unit_index) ==
    IF Len(ip) >= 2 /\ unit_index < Len(Units) - 1
    THEN Scale(SubSeq(ip, 1, Len(ip) - 1), <<ip[Len(ip)]>> \o fr, unit_index + 1)
    ELSE [int |-> ip, frac |-> fr, unit_index |-> unit_index]

\* ten times the fraction 0.f1 f2 ...: its integer part and the digits left
RECURSIVE Times10(_)
Times10(fr) ==
    IF fr = <<>> THEN [carry |-> 0, digits |-> <<>>]
    ELSE LET rest == Times10(Tail(fr))
             v == 10 * Head(fr) + rest.carry
         IN  [carry |-> v \div Base, digits |-> <<v % Base>> \o rest.digits]

\* the fraction 0.g1 g2 ... compared with one half
AboveHalf(gs) ==
    gs # <<>> /\ (gs[1] > Base \div 2
                   \/ (gs[1] = Base \div 2 /\ \E i \in 2..Len(gs) : gs[i] # 0))

IsHalf(gs) == gs # <<>> /\ gs[1] = Base \div 2 /\ \A i \in 2..Len(gs) : gs[i] = 0

\* f"{size:.1f}": the tenths of the value, rounded to the nearest, a tie to
\* the even one; 10 * int is even, so the parity is that of the tenths digit
Tenths(fr) ==
    LET t == Times10(fr)
        up == AboveHalf(t.digits) \/ (IsHalf(t.digits) /\ t.carry % 2 = 1)
    IN  t.carry + (IF up THEN 1 ELSE 0)

\* human_readable_size(size_bytes)
human_readable_size(size_bytes) ==
    IF size_bytes = <<0>> THEN [int |-> 0, dec |-> <<>>, unit |-> "B"]
    ELSE LET s == Scale(size_bytes, <<>>, 0)
             t == Tenths(s.frac)
         IN  IF s.unit_index = 0
             THEN [int |-> ValueOf(s.int), dec |-> <<>>, unit |-> Units[1]]
             ELSE [int |-> ValueOf(s.int) + (IF t = 10 THEN 1 ELSE 0),
                   dec |-> <<t % 10>>,
                   unit |-> Units[s.unit_index + 1]]

\* the sizes given to human_readable_size: zero, and up to three digits
\* followed by zeros, MaxDigits digits at most
SomeDigits == {0, 1, 256, 512, 768, 1023}

Sizes ==
    { ds \in { lead \o [i \in 1..z |-> 0] :
                  lead \in { d \in UNION { [1..n -> SomeDigits] : n \in 1..3 } : d[1] # 0 },
                  z \in 0..(MaxDigits - 1) } :
         Len(ds) <= MaxDigits }
    \cup { <<0>> }

\* a call of human_readable_size; the function keeps no state, so one call in
\* a behaviour shows all it does
HumanReadableSize(size_bytes) ==
    /\ lastcall = NoCall
    /\ lastcall' = [fn |-> "human_readable_size", arg |-> size_bytes,
                    value |-> human_readable_size(size_bytes)]
    /\ UNCHANGED avars
    /\ UNCHANGED <<cfgvars, results, call, jobs, sem, pc, attempts, proc, outcome, outOfOrder,
                   returned, tried, delays, allconn, plainRetried, submitted,
                   allReturned, logdir, logfile, localdirs>>

(***************************************************************************)
(* parse_ls_output.  A line of the listing is the sequence of its words    *)
(* and of the blanks between them; the text is the sequence of its lines.  *)
(***************************************************************************)
\* line.split(): the words
Split(line) == SelectSeq(line, LAMBDA a : a \notin Whitespace)

\* ' '.join(parts)
RECURSIVE Join(_)
Join(parts) ==
    IF Len(parts) <= 1 THEN parts ELSE <<Head(parts), " ">> \o Join(Tail(parts))

\* `phrase in line`
Contains(line, phrase) ==
    \E i \in 0..(Len(line) - Len(phrase)) : SubSeq(line, i + 1, i + Len(phrase)) = phrase

NoSuchFile == <<"No", " ", "such", " ", "file", " ", "or", " ", "directory">>

PermissionDenied == <<"Permission", " ", "denied">>

\* the words of the listings that begin with the letter d
WordsWithD == {"drwxr-xr-x", "directory", "denied"}

\* the words int() accepts, and their values
IntWords == {"0", "2", "8", "1536", "4096"}

int(w) == CASE w = "0" -> 0 [] w = "2" -> 2 [] w = "8" -> 8
            [] w = "1536" -> 1536 [] w = "4096" -> 4096

\* the body of the loop of parse_ls_output for one line: the records it
\* appends to `files`, none or one
ParsedLine(raw) ==
    LET line == Strip(raw)
        parts == Split(line)
        filename == Join(SubSeq(parts, 9, Len(parts)))
    IN  IF line = <<>> THEN <<>>
        ELSE IF Len(line) >= 2 /\ line[1] = "total" /\ line[2] = " " THEN <<>>
        ELSE IF Contains(line, NoSuchFile) \/ Contains(line, PermissionDenied) THEN <<>>
        ELSE IF Len(parts) < 9 THEN <<>>
        ELSE IF filename \in {<<".">>, <<"..">>} THEN <<>>
        ELSE IF parts[1] \in WordsWithD THEN <<>>
        ELSE IF parts[5] \notin IntWords THEN <<>>
        ELSE << [name |-> filename,
                 size_bytes |-> int(parts[5]),
                 size_human |-> human_readable_size(Digits(int(parts[5]))),
                 permissions |-> parts[1],
                 is_directory |-> FALSE,
                 mod_time |-> Join(SubSeq(parts, 6, 8))] >>

\* parse_ls_output(ls_output)
RECURSIVE parse_ls_output(_)
parse_ls_output(ls_output) ==
    IF ls_output = <<>> THEN <<>>
    ELSE ParsedLine(Head(ls_output)) \o parse_ls_output(Tail(ls_output))

\* a line of `ls -la`: its eight fields and the name, one blank between them
LsLine(perm, size, name) ==
    Join(<<perm, "1", "root", "root", size, "Oct", "8", "12:34">>) \o <<" ">> \o name

\* the lines the listings are made of: a directory, a line cut short, a size
\* that is no integer, the total line, an error of ls, an empty line, and
\* files with names of one word, of two words, and of two words two blanks apart
SomeLines ==
    { LsLine("drwxr-xr-x", "4096", <<"logs">>),
      Join(<<"-rw-r--r--", "1", "root">>),
      LsLine("-rw-r--r--", "4,", <<"x.log">>),
      Join(<<"total", "8">>),
      <<"ls:", " ">> \o NoSuchFile,
      <<>>,
      LsLine("-rw-r--r--", "0", <<"x.log">>),
      LsLine("-rw-r--r--", "4096", <<"app", " ", "one.log">>),
      LsLine("-rw-r--r--", "1536", <<"app", " ", " ", "two.log">>) }

Listings == UNION { [1..n -> SomeLines] : n \in 0..MaxLines }

\* a call of parse_ls_output
ParseLsOutput(ls_output) ==
    /\ lastcall = NoCall
    /\ lastcall' = [fn |-> "parse_ls_output", arg |-> ls_output,
                    value |-> parse_ls_output(ls_output)]
    /\ UNCHANGED avars
    /\ UNCHANGED <<cfgvars, results, call, jobs, sem, pc, attempts, proc, outcome, outOfOrder,
                   returned, tried, delays, allconn, plainRetried, submitted,
                   allReturned, logdir, logfile, localdirs>>

UtilNext ==
    \/ \E size_bytes \in Sizes : HumanReadableSize(size_bytes)
    \/ \E ls_output \in Listings : ParseLsOutput(ls_output)

(***************************************************************************)
(* External processes.  A text (stderr, an error message) is modelled by   *)
(* the set of phrases its lower-cased form contains.                       *)
(***************************************************************************)
RsyncExits ==
    { [rc |-> 0, err |-> {}],
      [rc |-> 23, err |-> {"partial transfer"}],
      [rc |-> 255, err |-> {"connection refused"}] }

SshStderrs ==
    { {},
      {"no such file or directory"},
      {"connection refused"},
      {"permission denied"},
      {"no such file or directory", "connection timed out"} }

\* what the remote `find ... -exec ls -la` may print: nothing, one file, and a
\* directory line followed by two files
SshStdouts ==
    { <<>>,
      << LsLine("-rw-r--r--", "4096", <<"app", " ", "one.log">>) >>,
      << LsLine("drwxr-xr-x", "4096", <<"logs">>),
         LsLine("-rw-r--r--", "1536", <<"x.log">>),
         LsLine("-rw-r--r--", "8", <<"y.log">>) >> }

SshExits ==
    { [rc |-> 0, err |-> {}, out |-> o] : o \in SshStdouts }
    \cup { [rc |-> 2, err |-> e, out |-> <<>>] : e \in SshStderrs }
    \cup { [rc |-> 255, err |-> {"connection refused"}, out |-> <<>>] }

SshIndicators ==
    { "connection refused", "connection timed out", "host key verification failed",
      "permission denied", "no route to host", "connection reset",
      "ssh: could not resolve hostname", "operation timed out" }

\* mutant: every non-zero exit is taken for a connectivity failure
IsSshError_all(err) == TRUE

\* any(indicator in stderr_str.lower() for indicator in [...])
IsSshError(err) == err \cap SshIndicators # {}

(***************************************************************************)
(* Retry tests.                                                            *)
(***************************************************************************)
\* mutant: one attempt too many
ExecLoopTest_off(a) == a <= retry_count

\* `while attempts < self.retry_count`
ExecLoopTest(a) == a < retry_count

\* `if attempts < self.retry_count` in the failure branches of execute_job
ExecMayRetry(a) == a < retry_count

\* `for attempt in range(1, self.retry_count + 1)`
ExploreLoopTest(a) == a < retry_count

\* mutant: gives up one attempt early
ExploreMayRetry_off(a) == a + 1 < retry_count

\* `if attempt < self.retry_count` in check_remote_file_exists
ExploreMayRetry(a) == a < retry_count

(***************************************************************************)
(* The admission gate: asyncio.Semaphore(self.max_parallel_jobs).          *)
(***************************************************************************)
\* mutant: the gate is made with one permit too many
NewSemaphore_more == max_parallel_jobs + 1

\* asyncio.Semaphore(self.max_parallel_jobs), made anew by every batch call
NewSemaphore == max_parallel_jobs

\* mutant: the gate admits at value 0 as well
CanAcquire_off(s) == s >= 0

CanAcquire(s) == s > 0

\* mutant: the permit is not given back
Release_lost(s) == s

Release(s) == s + 1

InFlight == { j \in Jobs : pc[j] \in {"admitted", "running", "sleeping"} }

Waiting == { j \in Jobs : pc[j] = "waiting" }

\* the state after construction, for a given value of the --dry-run option
EStart(dry) ==
    /\ command \in {"sync", "explore"}
    /\ dry_run = dry
    /\ localdirs = {}
    /\ max_parallel_jobs \in 1..MaxK
    /\ retry_count \in 0..MaxRetry
    /\ results = <<>>
    /\ call = "idle"
    /\ jobs = <<>>
    /\ sem = 0
    /\ pc = [j \in Jobs |-> "none"]
    /\ attempts = [j \in Jobs |-> 0]
    /\ proc = [j \in Jobs |-> "none"]
    /\ outcome = [j \in Jobs |-> NoOutcome]
    /\ outOfOrder = FALSE
    /\ returned = <<>>
    /\ tried = [j \in Jobs |-> 0]
    /\ delays = [j \in Jobs |-> 0]
    /\ allconn = [j \in Jobs |-> TRUE]
    /\ plainRetried = [j \in Jobs |-> FALSE]
    /\ submitted = 0
    /\ allReturned = <<>>
    /\ logdir = FALSE
    /\ logfile = NoLogFile
    /\ lastcall = NoCall

EInit == EStart(FALSE)

(***************************************************************************)
(* Outcomes.                                                               *)
(***************************************************************************)
\* JobResult(job, success, stdout, stderr, return_code, duration, attempts)
JobResult(j, ok, rc, text, a) ==
    [kind |-> "JobResult", job |-> jobs[j], success |-> ok,
     return_code |-> rc, stderr |-> text, attempts |-> a]

\* mutant: a success is reported as made at the first attempt
SuccessResult_first(j, x, a) == JobResult(j, TRUE, x.rc, x.err, 1)

SuccessResult(j, x, a) == JobResult(j, TRUE, x.rc, x.err, a)

\* mutant: the outcome of an exhausted job is the generic marker
ExitFailureResult_marker(j, x, a) == JobResult(j, FALSE, -1, {"max retries exceeded"}, a)

ExitFailureResult(j, x, a) == JobResult(j, FALSE, x.rc, x.err, a)

TimeoutResult(j, a) == JobResult(j, FALSE, -1, {"timeout after"}, a)

\* mutant: the exception is the task's result
ExceptionResult_raise(j, a) == [kind |-> "raised", job |-> jobs[j]]

\* `except Exception as e`: stderr = str(e)
ExceptionResult(j, a) == JobResult(j, FALSE, -1, {"exception text"}, a)

MaxRetriesResult(j, a) == JobResult(j, FALSE, -1, {"max retries exceeded"}, a)

\* (exists, file_info) of check_remote_file_exists, for a result without files
FileInfo(j, ex, text, flag) ==
    [kind |-> "file_info", job |-> jobs[j], exists |-> ex,
     files |-> <<>>, total_size_bytes |-> 0,
     total_size_human |-> [int |-> 0, dec |-> <<>>, unit |-> "B"],
     file_count |-> 0, raw_output |-> <<>>,
     error |-> text, ssh_error |-> flag]

\* mutant: the total is the size of the first file
TotalSize_first(files) == IF files = <<>> THEN 0 ELSE files[1].size_bytes

\* sum(f['size_bytes'] for f in files if not f['is_directory'])
RECURSIVE TotalSize(_)
TotalSize(files) ==
    IF files = <<>> THEN 0
    ELSE (IF Head(files).is_directory THEN 0 ELSE Head(files).size_bytes)
         + TotalSize(Tail(files))

\* len([f for f in files if not f['is_directory']])
FileCount(files) == Len(SelectSeq(files, LAMBDA f : ~f.is_directory))

\* the remote shell exited with 0: its output is parsed and totalled
FoundInfo(j, x) ==
    LET files == parse_ls_output(x.out)
    IN  [kind |-> "file_info", job |-> jobs[j], exists |-> TRUE,
         files |-> files, total_size_bytes |-> TotalSize(files),
         total_size_human |-> human_readable_size(Digits(TotalSize(files))),
         file_count |-> FileCount(files), raw_output |-> x.out,
         error |-> {"<None>"}, ssh_error |-> FALSE]

\* 'error': stderr_str
AbsentInfo(j, x) == FileInfo(j, FALSE, x.err, FALSE)

\* 'error': f"SSH connection failed after {n} attempts: {str(e)}"
SshFailedInfo(j, etext) ==
    FileInfo(j, FALSE, {"ssh connection failed after"} \cup etext, TRUE)

UnexpectedInfo(j) == FileInfo(j, FALSE, {"unexpected error"}, TRUE)

MaxRetriesInfo(j) == FileInfo(j, FALSE, {"max retries exceeded"}, TRUE)

\* str(e) of ConnectionError(f"SSH connection issue: {stderr_str.strip()}")
ConnectionErrorText(x) == {"ssh connection issue:"} \cup x.err

\* str(e) of asyncio.TimeoutError()
TimeoutErrorText == {}

OSErrorText == {"os error"}

(***************************************************************************)
(* Steps shared by the tasks of both engines.                              *)
(***************************************************************************)
\* mutant: the permit goes back on the success path only
Finish_leak(j, out) ==
    /\ pc' = [pc EXCEPT ![j] = "done"]
    /\ outcome' = [outcome EXCEPT ![j] = out]
    /\ outOfOrder' = (outOfOrder \/ (call = "execute" /\ \E i \in 1..(j - 1) : pc[i] # "done"))
    /\ sem' = IF out.kind = "JobResult" /\ ~out.success THEN sem ELSE sem + 1

\* leaving `async with semaphore`: the task returns its outcome, the permit goes back
Finish(j, out) ==
    /\ pc' = [pc EXCEPT ![j] = "done"]
    /\ outcome' = [outcome EXCEPT ![j] = out]
    /\ outOfOrder' = (outOfOrder \/ (call = "execute" /\ \E i \in 1..(j - 1) : pc[i] # "done"))
    /\ sem' = Release(sem)

\* mutant: the permit goes back for the time of the delay
Sleep_release(j) ==
    /\ pc' = [pc EXCEPT ![j] = "sleeping"]
    /\ sem' = sem + 1
    /\ UNCHANGED <<outcome, outOfOrder>>

\* `await asyncio.sleep(self.retry_delay); continue`
Sleep(j) ==
    /\ pc' = [pc EXCEPT ![j] = "sleeping"]
    /\ UNCHANGED <<outcome, outOfOrder, sem>>

\* entering `async with semaphore`
Acquire(j) ==
    /\ pc[j] = "waiting"
    /\ UNCHANGED <<avars, xvars, localdirs>>
    /\ CanAcquire(sem)
    /\ sem' = sem - 1
    /\ pc' = [pc EXCEPT ![j] = "admitted"]
    /\ UNCHANGED <<cfgvars, results, call, jobs, attempts, proc, outcome, outOfOrder, returned,
                   tried, delays, allconn, plainRetried, submitted, allReturned>>

\* the retry delay elapses; the loop goes round
SleepDone(j) ==
    /\ pc[j] = "sleeping"
    /\ UNCHANGED <<avars, xvars, localdirs>>
    /\ pc' = [pc EXCEPT ![j] = "admitted"]
    /\ delays' = [delays EXCEPT ![j] = @ + 1]
    /\ UNCHANGED <<cfgvars, results, call, jobs, sem, attempts, proc, outcome, outOfOrder,
                   returned, tried, allconn, plainRetried, submitted, allReturned>>

\* the batch call creates one task per descriptor and a fresh semaphore
NewTasks(n) ==
    /\ jobs' = [i \in 1..n |-> Descriptor(i)]
    /\ sem' = NewSemaphore
    /\ pc' = [j \in Jobs |-> IF j <= n THEN "waiting" ELSE "none"]
    /\ attempts' = [j \in Jobs |-> 0]
    /\ proc' = [j \in Jobs |-> "none"]
    /\ outcome' = [j \in Jobs |-> NoOutcome]
    /\ outOfOrder' = FALSE
    /\ returned' = <<>>
    /\ tried' = [j \in Jobs |-> 0]
    /\ delays' = [j \in Jobs |-> 0]
    /\ allconn' = [j \in Jobs |-> TRUE]
    /\ plainRetried' = [j \in Jobs |-> FALSE]

\* the batch call is over: its tasks and its semaphore no longer exist
TasksGone ==
    /\ sem' = 0
    /\ pc' = [j \in Jobs |-> "none"]
    /\ attempts' = [j \in Jobs |-> 0]
    /\ proc' = [j \in Jobs |-> "none"]
    /\ outcome' = [j \in Jobs |-> NoOutcome]
    /\ UNCHANGED outOfOrder
    /\ tried' = [j \in Jobs |-> 0]
    /\ delays' = [j \in Jobs |-> 0]
    /\ allconn' = [j \in Jobs |-> TRUE]
    /\ plainRetried' = [j \in Jobs |-> FALSE]

\* mutant: the call returns with the first task that completes
AllDone_first == \E j \in 1..Len(jobs) : pc[j] = "done"

\* asyncio.gather(*tasks) completes: every task of the batch has returned
AllDone == \A j \in 1..Len(jobs) : pc[j] = "done"

\* mutant: the last task comes first
Gathered_reversed == [i \in 1..Len(jobs) |-> outcome[Len(jobs) + 1 - i]]

\* the list asyncio.gather returns: the outcomes in the order of the tasks
Gathered == [i \in 1..Len(jobs) |-> outcome[i]]

(***************************************************************************)
(* Job execution engine: execute_jobs, bounded_execute, execute_job.       *)
(***************************************************************************)
StartExecute(n) ==
    /\ command = "sync"
    /\ UNCHANGED <<avars, xvars, localdirs>>
    /\ call = "idle"
    /\ n \in 0..MaxJobs
    /\ Len(results) + n <= MaxResults
    /\ call' = "execute"
    /\ NewTasks(n)
    /\ submitted' = submitted + n
    /\ UNCHANGED <<cfgvars, results, allReturned>>

\* a failed attempt of execute_job: retry after the delay, or give the final outcome
ExecFailure(j, a, out) ==
    IF ExecMayRetry(a) THEN Sleep(j) ELSE Finish(j, out)

\* mutant: a dry run makes no directory
mkdir_unless_dry(dirs, path) == IF dry_run THEN dirs ELSE dirs \cup {path}

\* job.local_path.mkdir(parents=True, exist_ok=True), when it does not raise
mkdir(dirs, path) == dirs \cup {path}

\* the loop test of execute_job and the start of an attempt: build_rsync_command
\* makes the destination directory, then the process is created
ExecBegin(j) ==
    /\ call = "execute"
    /\ UNCHANGED <<avars, xvars>>
    /\ pc[j] = "admitted"
    /\ IF ExecLoopTest(attempts[j])
       THEN /\ attempts' = [attempts EXCEPT ![j] = @ + 1]
            /\ tried' = [tried EXCEPT ![j] = @ + 1]
            /\ \/ \* build_rsync_command and create_subprocess_exec succeed
                  /\ localdirs' = mkdir(localdirs, LocalPath(jobs[j]))
                  /\ proc' = [proc EXCEPT ![j] = "running"]
                  /\ pc' = [pc EXCEPT ![j] = "running"]
                  /\ UNCHANGED <<outcome, outOfOrder, sem>>
               \/ \* mkdir raises, or create_subprocess_exec does after the
                  \* directory was made: `except Exception`
                  /\ \E made \in BOOLEAN :
                        localdirs' = IF made THEN mkdir(localdirs, LocalPath(jobs[j]))
                                     ELSE localdirs
                  /\ proc' = [proc EXCEPT ![j] = "none"]
                  /\ ExecFailure(j, attempts[j] + 1, ExceptionResult(j, attempts[j] + 1))
       ELSE /\ Finish(j, MaxRetriesResult(j, attempts[j]))
            /\ UNCHANGED <<attempts, tried, proc, localdirs>>
    /\ UNCHANGED <<cfgvars, results, call, jobs, returned, delays, allconn,
                   plainRetried, submitted, allReturned>>

\* mutant: the process is left alone
Kill_off(p) == p

\* process.kill()
Kill(p) == "killed"

\* mutant: the kill reaches every running process of the batch
KillOwn_all(j) == [i \in Jobs |-> IF proc[i] = "running" THEN Kill(proc[i]) ELSE proc[i]]

\* `process` is the local of the task: the kill reaches its own process only
KillOwn(j) == [proc EXCEPT ![j] = Kill(@)]

\* wait_for raises TimeoutError: process.kill()
ExecTimeout(j) ==
    /\ call = "execute"
    /\ UNCHANGED <<avars, xvars, localdirs>>
    /\ pc[j] = "running"
    /\ proc' = KillOwn(j)
    /\ ExecFailure(j, attempts[j], TimeoutResult(j, attempts[j]))
    /\ UNCHANGED <<cfgvars, results, call, jobs, attempts, returned, tried, delays,
                   allconn, plainRetried, submitted, allReturned>>

\* the process exits and communicate() returns: the exit status decides
ExecAttemptEnds(j, x) ==
    /\ call = "execute"
    /\ UNCHANGED <<avars, xvars, localdirs>>
    /\ pc[j] = "running"
    /\ x \in RsyncExits
    /\ proc' = [proc EXCEPT ![j] = "exited"]
    /\ IF x.rc = 0
       THEN Finish(j, SuccessResult(j, x, attempts[j]))
       ELSE ExecFailure(j, attempts[j], ExitFailureResult(j, x, attempts[j]))
    /\ UNCHANGED <<cfgvars, results, call, jobs, attempts, returned, tried, delays,
                   allconn, plainRetried, submitted, allReturned>>

\* mutant: the accumulator is replaced by the batch
Extend_replace(acc, rs) == rs

\* self.results.extend(results)
Extend(acc, rs) == acc \o rs

\* gather completes; self.results.extend(results); return results
ExecReturn ==
    /\ call = "execute"
    /\ UNCHANGED <<avars, xvars, localdirs>>
    /\ AllDone
    /\ results' = Extend(results, Gathered)
    /\ returned' = Gathered
    /\ allReturned' = allReturned \o Gathered
    /\ call' = "idle"
    /\ TasksGone
    /\ UNCHANGED <<cfgvars, jobs, submitted>>

\* get_summary
get_summary ==
    LET total == Len(results)
        successful == Cardinality({ i \in 1..Len(results) : results[i].success })
    IN  [total |-> total, successful |-> successful, failed |-> total - successful]

(***************************************************************************)
(* The failure log: write_failure_log, logs/failures.log.                  *)
(***************************************************************************)
\* mutant: only the failures of the last batch are logged
FailedResults_last == SelectSeq(returned, LAMBDA r : ~r.success)

\* failed_results = [r for r in self.results if not r.success]
FailedResults == SelectSeq(results, LAMBDA r : ~r.success)

\* the three lines that open what one call writes
LogHeader == [kind |-> "header"]

\* the lines written for one failed result
LogBlock(r) ==
    [kind |-> "failure", hostname |-> r.job.hostname, app_name |-> r.job.app_name,
     remote_path |-> r.job.remote_path, attempts |-> r.attempts,
     return_code |-> r.return_code, stderr |-> r.stderr]

\* what one call of write_failure_log appends for the failed results rs
LogLines(rs) == <<LogHeader>> \o [i \in 1..Len(rs) |-> LogBlock(rs[i])]

\* write_failure_log(): the parent directory is made, then the failed results
\* are looked for, and the file is opened for appending only if there are some
WriteFailureLog ==
    /\ command = "sync"
    /\ call = "idle"
    /\ UNCHANGED avars
    /\ Len(logfile.blocks) + Len(LogLines(FailedResults)) <= MaxLogBlocks
    /\ logdir' = TRUE
    /\ logfile' = IF FailedResults = <<>>
                  THEN logfile
                  ELSE [exists |-> TRUE, blocks |-> logfile.blocks \o LogLines(FailedResults)]
    /\ UNCHANGED <<cfgvars, results, call, jobs, sem, pc, attempts, proc, outcome, outOfOrder,
                   returned, tried, delays, allconn, plainRetried, submitted,
                   allReturned, lastcall, localdirs>>

(***************************************************************************)
(* Inspection engine: explore_jobs, bounded_explore,                       *)
(* check_remote_file_exists, _check_remote_file_exists_single.             *)
(***************************************************************************)
StartExplore(n) ==
    /\ command = "explore"
    /\ UNCHANGED <<avars, xvars, localdirs>>
    /\ call = "idle"
    /\ n \in 0..MaxExplore
    /\ call' = "explore"
    /\ NewTasks(n)
    /\ UNCHANGED <<cfgvars, results, submitted, allReturned>>

\* `except (asyncio.TimeoutError, OSError, ConnectionError) as e`: retry after
\* the delay, or give up with the connectivity-error result
ExploreFailure(j, a, etext) ==
    IF ExploreMayRetry(a) THEN Sleep(j) ELSE Finish(j, SshFailedInfo(j, etext))

\* the next iteration of the for loop and the launch of the remote shell
ExploreBegin(j) ==
    /\ call = "explore"
    /\ UNCHANGED <<avars, xvars, localdirs>>
    /\ pc[j] = "admitted"
    /\ IF ExploreLoopTest(attempts[j])
       THEN /\ attempts' = [attempts EXCEPT ![j] = @ + 1]
            /\ tried' = [tried EXCEPT ![j] = @ + 1]
            /\ \/ \* create_subprocess_exec succeeds
                  /\ proc' = [proc EXCEPT ![j] = "running"]
                  /\ pc' = [pc EXCEPT ![j] = "running"]
                  /\ UNCHANGED <<outcome, outOfOrder, sem, allconn>>
               \/ \* create_subprocess_exec raises an OSError
                  /\ proc' = [proc EXCEPT ![j] = "none"]
                  /\ allconn' = [allconn EXCEPT ![j] = FALSE]
                  /\ ExploreFailure(j, attempts[j] + 1, OSErrorText)
               \/ \* it raises anything else: `except Exception`
                  /\ proc' = [proc EXCEPT ![j] = "none"]
                  /\ allconn' = [allconn EXCEPT ![j] = FALSE]
                  /\ Finish(j, UnexpectedInfo(j))
       ELSE /\ Finish(j, MaxRetriesInfo(j))
            /\ UNCHANGED <<attempts, tried, proc, allconn>>
    /\ UNCHANGED <<cfgvars, results, call, jobs, returned, delays, plainRetried,
                   submitted, allReturned>>

\* wait_for raises TimeoutError; nothing ends the remote shell, which runs on
ExploreTimeout(j) ==
    /\ call = "explore"
    /\ UNCHANGED <<avars, xvars, localdirs>>
    /\ pc[j] = "running"
    /\ proc' = [proc EXCEPT ![j] = "abandoned"]
    /\ ExploreFailure(j, attempts[j], TimeoutErrorText)
    /\ UNCHANGED <<cfgvars, results, call, jobs, attempts, returned, tried, delays,
                   allconn, plainRetried, submitted, allReturned>>

\* the remote shell exits and communicate() returns: exit status and stderr decide
ExploreAttemptEnds(j, x) ==
    /\ call = "explore"
    /\ UNCHANGED <<avars, xvars, localdirs>>
    /\ pc[j] = "running"
    /\ x \in SshExits
    /\ proc' = [proc EXCEPT ![j] = "exited"]
    /\ IF x.rc = 0
       THEN /\ Finish(j, FoundInfo(j, x))
            /\ allconn' = [allconn EXCEPT ![j] = FALSE]
            /\ UNCHANGED plainRetried
       ELSE IF IsSshError(x.err)
       THEN /\ ExploreFailure(j, attempts[j], ConnectionErrorText(x))
            /\ plainRetried' = [plainRetried EXCEPT ![j] =
                                   @ \/ (x.err \cap SshIndicators = {} /\ pc'[j] = "sleeping")]
            /\ UNCHANGED allconn
       ELSE /\ Finish(j, AbsentInfo(j, x))
            /\ allconn' = [allconn EXCEPT ![j] = FALSE]
            /\ UNCHANGED plainRetried
    /\ UNCHANGED <<cfgvars, results, call, jobs, attempts, returned, tried, delays,
                   submitted, allReturned>>

\* mutant: an entry, once written, is kept
Organized_first ==
    LET Key(i) == <<jobs[i].hostname, jobs[i].app_name>>
        Keys == { Key(i) : i \in 1..Len(jobs) }
        First(k) == CHOOSE i \in 1..Len(jobs) :
                      /\ Key(i) = k
                      /\ \A m \in 1..Len(jobs) : Key(m) = k => m >= i
    IN  [k \in Keys |->
            [remote_path |-> jobs[First(k)].remote_path,
             exists |-> outcome[First(k)].exists,
             files |-> outcome[First(k)].files,
             total_size_bytes |-> outcome[First(k)].total_size_bytes,
             total_size_human |-> outcome[First(k)].total_size_human,
             file_count |-> outcome[First(k)].file_count,
             output |-> outcome[First(k)].raw_output,
             error |-> outcome[First(k)].error,
             ssh_error |-> outcome[First(k)].ssh_error]]

\* organized[job.hostname][job.app_name] = {...}, written in the order of the jobs
Organized ==
    LET Key(i) == <<jobs[i].hostname, jobs[i].app_name>>
        Keys == { Key(i) : i \in 1..Len(jobs) }
        Last(k) == CHOOSE i \in 1..Len(jobs) :
                      /\ Key(i) = k
                      /\ \A m \in 1..Len(jobs) : Key(m) = k => m <= i
    IN  [k \in Keys |->
            [remote_path |-> jobs[Last(k)].remote_path,
             exists |-> outcome[Last(k)].exists,
             files |-> outcome[Last(k)].files,
             total_size_bytes |-> outcome[Last(k)].total_size_bytes,
             total_size_human |-> outcome[Last(k)].total_size_human,
             file_count |-> outcome[Last(k)].file_count,
             output |-> outcome[Last(k)].raw_output,
             error |-> outcome[Last(k)].error,
             ssh_error |-> outcome[Last(k)].ssh_error]]

\* gather completes; the results are organized and returned
ExploreReturn ==
    /\ call = "explore"
    /\ UNCHANGED <<avars, xvars, localdirs>>
    /\ AllDone
    /\ returned' = Organized
    /\ call' = "idle"
    /\ TasksGone
    /\ UNCHANGED <<cfgvars, results, jobs, submitted, allReturned>>

(***************************************************************************)
(* The engine as a state machine.                                          *)
(***************************************************************************)
ENext ==
    \/ \E n \in 0..MaxJobs : StartExecute(n)
    \/ \E n \in 0..MaxExplore : StartExplore(n)
    \/ \E j \in Jobs : Acquire(j)
    \/ \E j \in Jobs : ExecBegin(j)
    \/ \E j \in Jobs : ExploreBegin(j)
    \/ \E j \in Jobs : \E x \in RsyncExits : ExecAttemptEnds(j, x)
    \/ \E j \in Jobs : \E x \in SshExits : ExploreAttemptEnds(j, x)
    \/ \E j \in Jobs : ExecTimeout(j)
    \/ \E j \in Jobs : ExploreTimeout(j)
    \/ \E j \in Jobs : SleepDone(j)
    \/ ExecReturn
    \/ ExploreReturn


(***************************************************************************)
(* Incremental archiver: CompressionManager.                               *)
(*                                                                         *)
(* A path is the sequence of its characters (the endpoint name counts as   *)
(* one); a file under the base directory is an endpoint and a name.        *)
(***************************************************************************)
Hosts == {"flp1", "flp2"}

FileNames == { <<"a">>, <<"b", " ">> }

\* the files the collection may bring: both names from flp1, one from flp2
Files == { f \in [host : Hosts, name : FileNames] : f.host = "flp1" \/ f.name = <<"a">> }

\* str(file_path.relative_to(self.base_path))
RelPath(f) == <<f.host, "/">> \o f.name

\* the characters in code-point order
Alphabet == <<"\t", "\n", " ", "/", "a", "b", "flp1", "flp2">>

Rank(c) == CHOOSE i \in 1..Len(Alphabet) : Alphabet[i] = c

\* s < t for two strings
RECURSIVE StrLess(_, _)
StrLess(t, u) ==
    IF u = <<>> THEN FALSE
    ELSE IF t = <<>> THEN TRUE
    ELSE IF Head(t) = Head(u) THEN StrLess(Tail(t), Tail(u))
    ELSE Rank(Head(t)) < Rank(Head(u))

\* sorted(tracked)
RECURSIVE Sorted(_)
Sorted(S) ==
    IF S = {} THEN <<>>
    ELSE LET m == CHOOSE x \in S : \A y \in S \ {x} : StrLess(x, y)
         IN  <<m>> \o Sorted(S \ {m})

NoTrackFile == [exists |-> FALSE, lines |-> <<>>]

\* load_tracked_files: the stripped, non-empty lines of the tracking file
load_tracked_files(h) ==
    IF ~trackfile[h].exists THEN {}
    ELSE { Strip(trackfile[h].lines[i]) : i \in 1..Len(trackfile[h].lines) } \ {<<>>}

\* save_tracked_files: one path per line, sorted, the file overwritten
save_tracked_files(tracked) == [exists |-> TRUE, lines |-> Sorted(tracked)]

\* os.walk(node_dir): every file under the endpoint's directory
AllFiles(h) == { f \in local : f.host = h }

\* get_new_files: the files whose relative path is not tracked
get_new_files(h) == { f \in AllFiles(h) : RelPath(f) \notin load_tracked_files(h) }

\* mutant: the tracking file is ignored in both modes
Selected_all(h, force) == AllFiles(h)

\* mutant: the tracking file is consulted in both modes
Selected_new(h, force) == get_new_files(h)

\* files_to_archive of create_incremental_archive
Selected(h, force) == IF force THEN AllFiles(h) ELSE get_new_files(h)

\* tracked.add(rel_path) for every file of files_to_archive
Merged(tracked, sel) == tracked \cup { RelPath(f) : f \in sel }

\* mutant: the container is named by the timestamp alone
get_archive_path_shared(h, ts) == <<"flp1", ts>>

\* get_archive_path: archives/<hostname>_<timestamp>.tar.gz
get_archive_path(h, ts) == <<h, ts>>

ArchivePaths == Hosts \X (0..MaxClock)

NoContainer == [exists |-> FALSE, members |-> {}]

NoResult == [kind |-> "none"]

\* results = {}
NoEntries == [h \in {} |-> NoResult]

\* results[hostname] = {'success': True, 'archive_path': ..., 'file_count': ...}
SuccessEntry(archive, count) ==
    [success |-> TRUE, archive_path |-> archive, file_count |-> count]

\* results[hostname] = {'success': False, 'error': str(e), 'file_count': 0}
FailureEntry == [success |-> FALSE, error |-> "str(e)", file_count |-> 0]

\* the orders in which iterdir() may list the directories S
Orders(S) ==
    { o \in [1..Cardinality(S) -> S] : \A i, k \in 1..Cardinality(S) : o[i] = o[k] => i = k }

\* the archiver before its first run, the collection having brought `files`
AStart(files) ==
    /\ now = 0
    /\ local = files
    /\ trackfile = [h \in Hosts |-> NoTrackFile]
    /\ containers = [p \in ArchivePaths |-> NoContainer]
    /\ apc = [h \in Hosts |-> "idle"]
    /\ aforce = [h \in Hosts |-> FALSE]
    /\ asel = [h \in Hosts |-> {}]
    /\ apath = [h \in Hosts |-> <<h, 0>>]
    /\ aresult = [h \in Hosts |-> NoResult]
    /\ anew = [h \in Hosts |-> FALSE]
    /\ based = [h \in Hosts |-> FALSE]
    /\ delta = [h \in Hosts |-> {}]
    /\ achanged = [h \in Hosts |-> FALSE]
    /\ redo = [h \in Hosts |-> {}]
    /\ dpc = "idle"
    /\ dforce = FALSE
    /\ dtodo = <<>>
    /\ dresults = NoEntries
    /\ dlisting = {}
    /\ nruns = 0
    /\ nchanges = 0
    /\ archive_dir = FALSE

AInit == AStart({})

\* the call is over: its locals are gone
CallOver(h) ==
    /\ apc' = [apc EXCEPT ![h] = "idle"]
    /\ aforce' = [aforce EXCEPT ![h] = FALSE]
    /\ asel' = [asel EXCEPT ![h] = {}]
    /\ apath' = [apath EXCEPT ![h] = <<h, 0>>]
    /\ anew' = [anew EXCEPT ![h] = FALSE]
    /\ achanged' = [achanged EXCEPT ![h] = FALSE]

\* a completed non-forced run leaves a base to compare with, unless the tree
\* changed while it ran; any other end of a run leaves none
NewBase(h, completed) ==
    LET ok == completed /\ ~aforce[h] /\ ~achanged[h]
    IN  /\ based' = [based EXCEPT ![h] = ok]
        /\ delta' = [delta EXCEPT ![h] = {}]

\* mutant: the loop stops after one directory
Remaining_abort(todo) == <<>>

\* the loop of compress_all_hosts goes on with the next directory
Remaining(todo) == Tail(todo)

\* compress_all_hosts, if it made the call, stores the entry of the endpoint
Recorded(h, entry) ==
    IF dpc = "looping"
    THEN /\ dresults' = [g \in DOMAIN dresults \cup {h} |->
                            IF g = h THEN entry ELSE dresults[g]]
         /\ dtodo' = Remaining(dtodo)
         /\ UNCHANGED <<dpc, dforce, dlisting>>
    ELSE UNCHANGED dvars

\* create_incremental_archive(hostname, force) is called, no other call being
\* under way (compress_all_hosts makes them one after the other): the files
\* are selected
ArchiveBegin(h, force) ==
    /\ \A g \in Hosts : apc[g] = "idle"
    /\ UNCHANGED evars
    /\ archive_dir' = TRUE
    /\ \/ dpc = "idle"
       \/ dpc = "looping" /\ dtodo # <<>> /\ h = Head(dtodo) /\ force = dforce
    /\ redo' = [redo EXCEPT ![h] = IF force THEN {} ELSE @]
    /\ UNCHANGED dvars
    /\ nruns < MaxRuns
    /\ nruns' = nruns + 1
    /\ apc' = [apc EXCEPT ![h] = "selected"]
    /\ aforce' = [aforce EXCEPT ![h] = force]
    /\ asel' = [asel EXCEPT ![h] = Selected(h, force)]
    /\ aresult' = [g \in Hosts |-> NoResult]
    /\ UNCHANGED <<now, local, trackfile, containers, apath, anew, based, delta,
                   achanged, nchanges>>

\* `if not files_to_archive: return None, 0`
ArchiveNothing(h) ==
    /\ apc[h] = "selected"
    /\ UNCHANGED <<evars, archive_dir>>
    /\ asel[h] = {}
    /\ aresult' = [aresult EXCEPT ![h] = [kind |-> "returned", archive |-> "None", count |-> 0]]
    /\ NewBase(h, TRUE)
    /\ CallOver(h)
    /\ redo' = [redo EXCEPT ![h] = {}]
    /\ Recorded(h, SuccessEntry("None", 0))
    /\ UNCHANGED <<now, local, trackfile, containers, nruns, nchanges>>

\* the container is named by the clock and opened for writing ("w:gz")
ArchiveOpen(h) ==
    /\ UNCHANGED <<redo, dvars>>
    /\ apc[h] = "selected"
    /\ UNCHANGED <<evars, archive_dir>>
    /\ asel[h] # {}
    /\ apath' = [apath EXCEPT ![h] = get_archive_path(h, now)]
    /\ anew' = [anew EXCEPT ![h] = ~containers[get_archive_path(h, now)].exists]
    /\ containers' = [containers EXCEPT ![get_archive_path(h, now)] =
                         [exists |-> TRUE, members |-> {}]]
    /\ apc' = [apc EXCEPT ![h] = "opened"]
    /\ UNCHANGED <<now, local, trackfile, aforce, asel, aresult, based, delta,
                   achanged, nruns, nchanges>>

\* tar.add for every selected file; a failure is logged and the loop goes on
ArchiveAdd(h, failed) ==
    /\ UNCHANGED <<redo, dvars>>
    /\ apc[h] = "opened"
    /\ UNCHANGED <<evars, archive_dir>>
    /\ failed \subseteq asel[h]
    /\ \A f \in asel[h] : f \notin local => f \in failed
    /\ containers' = [containers EXCEPT ![apath[h]] =
                         [exists |-> TRUE,
                          members |-> { RelPath(f) : f \in asel[h] \ failed }]]
    /\ apc' = [apc EXCEPT ![h] = "written"]
    /\ UNCHANGED <<now, local, trackfile, aforce, asel, apath, aresult, anew, based,
                   delta, achanged, nruns, nchanges>>

\* tracked = load_tracked_files(); tracked.add(...); save_tracked_files()
ArchiveTrack(h) ==
    /\ UNCHANGED <<redo, dvars>>
    /\ apc[h] = "written"
    /\ UNCHANGED <<evars, archive_dir>>
    /\ trackfile' = [trackfile EXCEPT ![h] =
                        save_tracked_files(Merged(load_tracked_files(h), asel[h]))]
    /\ apc' = [apc EXCEPT ![h] = "saved"]
    /\ UNCHANGED <<now, local, containers, aforce, asel, apath, aresult, anew, based,
                   delta, achanged, nruns, nchanges>>

\* `return archive_path, len(files_to_archive)`
ArchiveReturn(h) ==
    /\ apc[h] = "saved"
    /\ UNCHANGED <<evars, archive_dir>>
    /\ aresult' = [aresult EXCEPT ![h] =
                      [kind |-> "returned", archive |-> apath[h],
                       count |-> Cardinality(asel[h])]]
    /\ NewBase(h, TRUE)
    /\ CallOver(h)
    /\ redo' = [redo EXCEPT ![h] = {}]
    /\ Recorded(h, SuccessEntry(apath[h], Cardinality(asel[h])))
    /\ UNCHANGED <<now, local, trackfile, containers, nruns, nchanges>>

\* the locals of compress_all_hosts are gone with its process
DriverGone ==
    /\ dpc' = "idle"
    /\ dforce' = FALSE
    /\ dtodo' = <<>>
    /\ dresults' = NoEntries
    /\ dlisting' = {}

\* an exception leaves create_incremental_archive (an I/O error of open,
\* tarfile, the tracking file or stat); compress_all_hosts catches it
ArchiveRaises(h) ==
    /\ apc[h] \in {"selected", "opened", "written", "saved"}
    /\ UNCHANGED <<evars, archive_dir>>
    /\ aresult' = [aresult EXCEPT ![h] = [kind |-> "raised"]]
    /\ NewBase(h, FALSE)
    /\ CallOver(h)
    /\ redo' = [redo EXCEPT ![h] = IF apc[h] = "written" THEN asel[h] ELSE {}]
    /\ Recorded(h, FailureEntry)
    /\ UNCHANGED <<now, local, trackfile, containers, nruns, nchanges>>

\* save_tracked_files raises after open(tracked_path, 'w') emptied the file
\* and n of the lines were written
ArchiveSaveFails(h, n) ==
    /\ apc[h] = "written"
    /\ UNCHANGED <<evars, archive_dir>>
    /\ LET lines == save_tracked_files(Merged(load_tracked_files(h), asel[h])).lines
       IN  /\ n \in 0..(Len(lines) - 1)
           /\ trackfile' = [trackfile EXCEPT ![h] =
                               [exists |-> TRUE, lines |-> SubSeq(lines, 1, n)]]
    /\ aresult' = [aresult EXCEPT ![h] = [kind |-> "raised"]]
    /\ NewBase(h, FALSE)
    /\ CallOver(h)
    /\ redo' = [redo EXCEPT ![h] = {}]
    /\ Recorded(h, FailureEntry)
    /\ UNCHANGED <<now, local, containers, nruns, nchanges>>

\* the process is killed while the run is where it is
ArchiveInterrupted(h) ==
    /\ apc[h] \in {"selected", "opened", "written", "saved"}
    /\ UNCHANGED <<evars, archive_dir>>
    /\ aresult' = [aresult EXCEPT ![h] = NoResult]
    /\ NewBase(h, FALSE)
    /\ CallOver(h)
    /\ redo' = [redo EXCEPT ![h] = IF apc[h] = "written" THEN asel[h] ELSE {}]
    /\ DriverGone
    /\ UNCHANGED <<now, local, trackfile, containers, nruns, nchanges>>

(***************************************************************************)
(* compress_all_hosts: one archive run per directory of the base path.     *)
(***************************************************************************)
\* the directories under the base path, archives/ left out: those that hold
\* files, and any that are empty
HostDirs == { S \in SUBSET Hosts : \A f \in local : f.host \in S }

\* compress_all_hosts(force) is called: host_dirs is listed
CompressAllBegin(force, order) ==
    /\ dpc = "idle"
    /\ UNCHANGED evars
    /\ archive_dir' = TRUE
    /\ \A g \in Hosts : apc[g] = "idle"
    /\ nruns + Len(order) <= MaxRuns
    /\ dpc' = "looping"
    /\ dforce' = force
    /\ dtodo' = order
    /\ dresults' = NoEntries
    /\ dlisting' = { order[i] : i \in 1..Len(order) }
    /\ UNCHANGED <<now, local, trackfile, containers, apc, aforce, asel, apath,
                   aresult, anew, based, delta, achanged, redo, nruns, nchanges>>

\* the loop is over: `return results`
CompressAllReturn ==
    /\ dpc = "looping"
    /\ UNCHANGED <<evars, archive_dir>>
    /\ dtodo = <<>>
    /\ dpc' = "returned"
    /\ UNCHANGED <<dforce, dtodo, dresults, dlisting>>
    /\ UNCHANGED <<now, local, trackfile, containers, apc, aforce, asel, apath,
                   aresult, anew, based, delta, achanged, redo, nruns, nchanges>>

\* the process is killed between two archive runs
CompressAllKilled ==
    /\ dpc = "looping"
    /\ UNCHANGED <<evars, archive_dir>>
    /\ \A g \in Hosts : apc[g] = "idle"
    /\ DriverGone
    /\ UNCHANGED <<now, local, trackfile, containers, apc, aforce, asel, apath,
                   aresult, anew, based, delta, achanged, redo, nruns, nchanges>>

\* run_compress: `return 0 if successful == total else 1`
run_compress_status ==
    LET total == Cardinality(DOMAIN dresults)
        successful == Cardinality({ h \in DOMAIN dresults : dresults[h].success })
    IN  IF successful = total THEN 0 ELSE 1

\* run_sync: `return 0 if summary['failed'] == 0 else 1`, the summary being
\* that of the collection; compression_results is printed and not used
run_sync_status == IF get_summary.failed = 0 THEN 0 ELSE 1

\* run_sync has printed the compression summary: the process exits
RunSyncExits ==
    /\ command = "sync"
    /\ dpc = "returned"
    /\ UNCHANGED <<evars, archive_dir>>
    /\ DriverGone
    /\ UNCHANGED <<now, local, trackfile, containers, apc, aforce, asel, apath,
                   aresult, anew, based, delta, achanged, redo, nruns, nchanges>>

\* run_compress has printed its summary: the process exits
RunCompressExits ==
    /\ command = "compress"
    /\ dpc = "returned"
    /\ UNCHANGED <<evars, archive_dir>>
    /\ DriverGone
    /\ UNCHANGED <<now, local, trackfile, containers, apc, aforce, asel, apath,
                   aresult, anew, based, delta, achanged, redo, nruns, nchanges>>

(***************************************************************************)
(* The archive catalog: run_list_archives, list_archives.                  *)
(***************************************************************************)
\* list_archives(hostname): the containers archives/<hostname>_*.tar.gz
list_archives(h) == { p \in ArchivePaths : containers[p].exists /\ p[1] = h }

\* run_list_archives: the CompressionManager is built, and its __init__ makes
\* the directory archives/; then the containers are listed and printed, those
\* of one endpoint or (print_archive_summary) of all
RunListArchives ==
    /\ dpc = "idle"
    /\ \A g \in Hosts : apc[g] = "idle"
    /\ UNCHANGED evars
    /\ archive_dir' = TRUE
    /\ UNCHANGED dvars
    /\ UNCHANGED <<now, local, trackfile, containers, apc, aforce, asel, apath,
                   aresult, anew, based, delta, achanged, redo, nruns, nchanges>>

(***************************************************************************)
(* The surroundings of the archiver: the collection writes files under an  *)
(* endpoint's directory, an operator removes some, time passes.            *)
(***************************************************************************)
\* a run looks at the tree when it walks the directory and when it adds the
\* files, and at the clock when it names its container: a change of the tree
\* or of the clock is taken just before one of these, where it is observed
TreeObserved(h) == apc[h] \in {"idle", "opened"}

ClockObserved == \E h \in Hosts : apc[h] = "selected" /\ asel[h] # {}

FileAppears(f) ==
    /\ f \in Files \ local
    /\ TreeObserved(f.host)
    /\ UNCHANGED <<evars, archive_dir>>
    /\ nchanges < MaxChanges
    /\ nchanges' = nchanges + 1
    /\ local' = local \cup {f}
    /\ delta' = [delta EXCEPT ![f.host] = IF based[f.host] THEN @ \cup {f} ELSE {}]
    /\ achanged' = [achanged EXCEPT ![f.host] = apc[f.host] # "idle"]
    /\ redo' = [redo EXCEPT ![f.host] = {}]
    /\ UNCHANGED dvars
    /\ UNCHANGED <<now, trackfile, containers, apc, aforce, asel, apath, aresult,
                   anew, based, nruns>>

\* a selected file is gone before tar.add reaches it
FileRemoved(f) ==
    /\ f \in local
    /\ apc[f.host] = "opened"
    /\ UNCHANGED <<evars, archive_dir>>
    /\ local' = local \ {f}
    /\ based' = [based EXCEPT ![f.host] = FALSE]
    /\ delta' = [delta EXCEPT ![f.host] = {}]
    /\ achanged' = [achanged EXCEPT ![f.host] = apc[f.host] # "idle"]
    /\ redo' = [redo EXCEPT ![f.host] = {}]
    /\ UNCHANGED dvars
    /\ UNCHANGED <<now, trackfile, containers, apc, aforce, asel, apath, aresult,
                   anew, nruns, nchanges>>

Tick ==
    /\ now < MaxClock
    /\ ClockObserved
    /\ UNCHANGED <<evars, archive_dir>>
    /\ now' = now + 1
    /\ UNCHANGED <<redo, dvars>>
    /\ UNCHANGED <<local, trackfile, containers, apc, aforce, asel, apath, aresult,
                   anew, based, delta, achanged, nruns, nchanges>>

\* one process runs the archiver: one create_incremental_archive call at a time
ANext ==
    \/ \E h \in Hosts : \E force \in BOOLEAN : ArchiveBegin(h, force)
    \/ \E h \in Hosts : ArchiveNothing(h)
    \/ \E h \in Hosts : ArchiveOpen(h)
    \/ \E h \in Hosts : \E failed \in SUBSET Files : ArchiveAdd(h, failed)
    \/ \E h \in Hosts : ArchiveTrack(h)
    \/ \E h \in Hosts : ArchiveReturn(h)
    \/ \E h \in Hosts : ArchiveRaises(h)
    \/ \E h \in Hosts : \E n \in 0..Cardinality(Files) : ArchiveSaveFails(h, n)
    \/ \E h \in Hosts : ArchiveInterrupted(h)
    \/ \E force \in BOOLEAN : \E S \in HostDirs : \E order \in Orders(S) :
          CompressAllBegin(force, order)
    \/ CompressAllReturn
    \/ CompressAllKilled
    \/ RunCompressExits
    \/ RunListArchives
    \/ \E f \in Files : FileAppears(f)
    \/ \E f \in Files : FileRemoved(f)
    \/ Tick

(***************************************************************************)
(* Archive runs of different endpoints made at the same time, by two       *)
(* processes on the same base directory: the first run of each endpoint,   *)
(* over the files the collection has brought.                              *)
(***************************************************************************)
\* create_incremental_archive(hostname, force) is called for an endpoint that
\* has no tracking file yet, whatever the runs of the other endpoints do
ConcurrentBegin(h, force) ==
    /\ apc[h] = "idle"
    /\ dpc = "idle"
    /\ ~trackfile[h].exists
    /\ UNCHANGED evars
    /\ archive_dir' = TRUE
    /\ nruns < MaxRuns
    /\ nruns' = nruns + 1
    /\ apc' = [apc EXCEPT ![h] = "selected"]
    /\ aforce' = [aforce EXCEPT ![h] = force]
    /\ asel' = [asel EXCEPT ![h] = Selected(h, force)]
    /\ aresult' = [aresult EXCEPT ![h] = NoResult]
    /\ redo' = [redo EXCEPT ![h] = IF force THEN {} ELSE @]
    /\ UNCHANGED dvars
    /\ UNCHANGED <<now, local, trackfile, containers, apath, anew, based, delta,
                   achanged, nchanges>>

ConcurrentNext ==
    \/ \E h \in Hosts : \E force \in BOOLEAN : ConcurrentBegin(h, force)
    \/ \E h \in Hosts : ArchiveNothing(h)
    \/ \E h \in Hosts : ArchiveOpen(h)
    \/ \E h \in Hosts : \E failed \in SUBSET Files : ArchiveAdd(h, failed)
    \/ \E h \in Hosts : ArchiveTrack(h)
    \/ \E h \in Hosts : ArchiveReturn(h)
    \/ \E h \in Hosts : ArchiveRaises(h)
    \/ Tick

(***************************************************************************)
(* The sync command after its collection: run_sync goes on with            *)
(* compress_all_hosts() and returns the exit status.                       *)
(***************************************************************************)
\* the engine when collect_logs has returned: execute_jobs was called once,
\* with n descriptors of which those in `failing` failed their one attempt,
\* and write_failure_log was called if one of them failed
Collected(n, failing) ==
    /\ command = "sync"
    /\ dry_run = FALSE
    /\ localdirs = { LocalPath(Descriptor(i)) : i \in 1..n }
    /\ max_parallel_jobs = 1
    /\ retry_count = 1
    /\ call = "idle"
    /\ jobs = [i \in 1..n |-> Descriptor(i)]
    /\ results = [i \in 1..n |->
                     IF i \in failing
                     THEN JobResult(i, FALSE, 23, {"partial transfer"}, 1)
                     ELSE JobResult(i, TRUE, 0, {}, 1)]
    /\ returned = results
    /\ allReturned = results
    /\ submitted = n
    /\ sem = 0
    /\ pc = [j \in Jobs |-> "none"]
    /\ attempts = [j \in Jobs |-> 0]
    /\ proc = [j \in Jobs |-> "none"]
    /\ outcome = [j \in Jobs |-> NoOutcome]
    /\ outOfOrder = FALSE
    /\ tried = [j \in Jobs |-> 0]
    /\ delays = [j \in Jobs |-> 0]
    /\ allconn = [j \in Jobs |-> TRUE]
    /\ plainRetried = [j \in Jobs |-> FALSE]
    /\ logdir = (failing # {})
    /\ logfile = IF failing = {} THEN NoLogFile
                 ELSE [exists |-> TRUE, blocks |-> LogLines(FailedResults)]
    /\ lastcall = NoCall

RunSyncNext ==
    \/ \E S \in HostDirs : \E order \in Orders(S) : CompressAllBegin(FALSE, order)
    \/ \E h \in Hosts : ArchiveBegin(h, FALSE)
    \/ \E h \in Hosts : ArchiveNothing(h)
    \/ \E h \in Hosts : ArchiveOpen(h)
    \/ \E h \in Hosts : \E failed \in SUBSET Files : ArchiveAdd(h, failed)
    \/ \E h \in Hosts : ArchiveTrack(h)
    \/ \E h \in Hosts : ArchiveReturn(h)
    \/ \E h \in Hosts : ArchiveRaises(h)
    \/ CompressAllReturn
    \/ RunSyncExits
    \/ Tick

\* the engine of a process that runs the compress command: none is built
ENone ==
    /\ command = "compress"
    /\ dry_run = FALSE
    /\ localdirs = {}
    /\ max_parallel_jobs = 1
    /\ retry_count = 0
    /\ results = <<>>
    /\ call = "idle"
    /\ jobs = <<>>
    /\ sem = 0
    /\ pc = [j \in Jobs |-> "none"]
    /\ attempts = [j \in Jobs |-> 0]
    /\ proc = [j \in Jobs |-> "none"]
    /\ outcome = [j \in Jobs |-> NoOutcome]
    /\ outOfOrder = FALSE
    /\ returned = <<>>
    /\ tried = [j \in Jobs |-> 0]
    /\ delays = [j \in Jobs |-> 0]
    /\ allconn = [j \in Jobs |-> TRUE]
    /\ plainRetried = [j \in Jobs |-> FALSE]
    /\ submitted = 0
    /\ allReturned = <<>>
    /\ logdir = FALSE
    /\ logfile = NoLogFile
    /\ lastcall = NoCall

(***************************************************************************)
(* Specifications: the engines (sync / explore), and the archiver.         *)
(***************************************************************************)
Init == EInit /\ AInit

Spec == Init /\ [][ENext]_vars

ArchInit == ENone /\ AInit

ArchSpec == ArchInit /\ [][ANext]_vars

ConcurrentInit == ENone /\ \E files \in SUBSET Files : AStart(files)

ConcurrentSpec == ConcurrentInit /\ [][ConcurrentNext]_vars

RunSyncInit ==
    /\ \E n \in 0..1 : \E failing \in SUBSET (1..n) : Collected(n, failing)
    /\ \E files \in SUBSET Files : AStart(files)

RunSyncSpec == RunSyncInit /\ [][RunSyncNext]_vars

\* the module-level functions of rsync_manager.py, called with no manager built
UtilSpec == ArchInit /\ [][UtilNext]_vars

(***************************************************************************)
(* The sync command alone, with fairness: the event loop runs every ready  *)
(* task, every rsync process exits or has its timeout fire, every retry    *)
(* delay elapses, and gather returns once every task is done.              *)
(***************************************************************************)
SyncInit == Init /\ command = "sync"

SyncNext ==
    \/ \E n \in 0..MaxJobs : StartExecute(n)
    \/ \E j \in Jobs : Acquire(j)
    \/ \E j \in Jobs : ExecBegin(j)
    \/ \E j \in Jobs : \E x \in RsyncExits : ExecAttemptEnds(j, x)
    \/ \E j \in Jobs : ExecTimeout(j)
    \/ \E j \in Jobs : SleepDone(j)
    \/ ExecReturn

\* the next step of task j: which one is decided by the task's position alone
TaskStep(j) ==
    \/ Acquire(j)
    \/ ExecBegin(j)
    \/ ExecTimeout(j)
    \/ \E x \in RsyncExits : ExecAttemptEnds(j, x)
    \/ SleepDone(j)

EFairness ==
    /\ \A j \in Jobs : WF_vars(TaskStep(j))
    /\ WF_vars(ExecReturn)

FairSpec == SyncInit /\ [][SyncNext]_vars /\ EFairness

(***************************************************************************)
(* Both engines with fairness: the event loop runs every ready task, every *)
(* external process exits or has its timeout fire, every retry delay       *)
(* elapses, and gather returns once every task is done.                    *)
(***************************************************************************)
\* one exit of each kind the engines tell apart: success and failure of
\* rsync; found, absent and unreachable for the remote shell
SomeRsyncExits == { x \in RsyncExits : x.rc \in {0, 23} }

SomeSshExits ==
    { x \in SshExits :
         \/ x.rc = 0 /\ Len(x.out) = 1
         \/ x.err = {"no such file or directory"}
         \/ x.rc = 255 }

BatchNext ==
    \/ \E n \in 0..MaxJobs : StartExecute(n)
    \/ \E n \in 0..MaxExplore : StartExplore(n)
    \/ \E j \in Jobs : Acquire(j)
    \/ \E j \in Jobs : ExecBegin(j)
    \/ \E j \in Jobs : ExploreBegin(j)
    \/ \E j \in Jobs : \E x \in SomeRsyncExits : ExecAttemptEnds(j, x)
    \/ \E j \in Jobs : \E x \in SomeSshExits : ExploreAttemptEnds(j, x)
    \/ \E j \in Jobs : ExecTimeout(j)
    \/ \E j \in Jobs : ExploreTimeout(j)
    \/ \E j \in Jobs : SleepDone(j)
    \/ ExecReturn
    \/ ExploreReturn

\* the next step of task j in either engine
AnyTaskStep(j) ==
    \/ Acquire(j)
    \/ ExecBegin(j)
    \/ ExploreBegin(j)
    \/ ExecTimeout(j)
    \/ ExploreTimeout(j)
    \/ \E x \in SomeRsyncExits : ExecAttemptEnds(j, x)
    \/ \E x \in SomeSshExits : ExploreAttemptEnds(j, x)
    \/ SleepDone(j)

BatchFairness ==
    /\ \A j \in Jobs : WF_vars(AnyTaskStep(j))
    /\ WF_vars(ExecReturn)
    /\ WF_vars(ExploreReturn)

\* two attempts are enough for a job to go round its retry loop
BatchInit == Init /\ retry_count <= 2

BatchSpec == BatchInit /\ [][BatchNext]_vars /\ BatchFairness

(***************************************************************************)
(* The sync command, in either mode, on a storage tree that something else *)
(* may prune while the batch runs.                                         *)
(***************************************************************************)
\* a destination directory is removed from outside
DirRemoved(path) ==
    /\ path \in localdirs
    /\ localdirs' = localdirs \ {path}
    /\ UNCHANGED <<avars, xvars>>
    /\ UNCHANGED <<cfgvars, results, call, jobs, sem, pc, attempts, proc, outcome, outOfOrder,
                   returned, tried, delays, allconn, plainRetried, submitted,
                   allReturned>>

DirInit == (\E dry \in BOOLEAN : EStart(dry)) /\ command = "sync" /\ AInit

DirNext ==
    \/ \E n \in 0..MaxJobs : StartExecute(n)
    \/ \E j \in Jobs : Acquire(j)
    \/ \E j \in Jobs : ExecBegin(j)
    \/ \E j \in Jobs : \E x \in RsyncExits : ExecAttemptEnds(j, x)
    \/ \E j \in Jobs : ExecTimeout(j)
    \/ \E j \in Jobs : SleepDone(j)
    \/ ExecReturn
    \/ \E j \in Jobs : DirRemoved(LocalPath(Descriptor(j)))

DirSpec == DirInit /\ [][DirNext]_vars

(***************************************************************************)
(* The sync command with its failure log.                                  *)
(***************************************************************************)
LogNext ==
    \/ \E n \in 0..MaxJobs : StartExecute(n)
    \/ \E j \in Jobs : Acquire(j)
    \/ \E j \in Jobs : ExecBegin(j)
    \/ \E j \in Jobs : \E x \in RsyncExits : ExecAttemptEnds(j, x)
    \/ \E j \in Jobs : ExecTimeout(j)
    \/ \E j \in Jobs : SleepDone(j)
    \/ ExecReturn
    \/ WriteFailureLog

LogSpec == SyncInit /\ [][LogNext]_vars


(***************************************************************************)
(* Claims about the engines.                                               *)
(***************************************************************************)
Executing == call = "execute"

Exploring == call = "explore"

\* C1: during an execute_jobs call the number of jobs that were admitted and
\* have not yet produced their terminal outcome never exceeds max_parallel_jobs.
C1_AtMostKInFlight ==
    Executing => Cardinality(InFlight) <= max_parallel_jobs

\* C1 witness: K jobs are in flight, one of them in its retry delay, and
\* another job waits for admission.
C1_Witness ==
    /\ Executing
    /\ Cardinality(InFlight) = max_parallel_jobs
    /\ Waiting # {}
    /\ \E j \in InFlight : pc[j] = "sleeping"

\* C2: execute_jobs returns nothing while a task is pending, and what it
\* returns holds exactly one terminal outcome per submitted descriptor, the
\* i-th outcome referring to the i-th descriptor.
C2_BatchBarrier ==
    command = "sync" =>
        /\ Executing => returned = <<>>
        /\ call = "idle" =>
              /\ Len(returned) = Len(jobs)
              /\ \A i \in 1..Len(jobs) :
                    /\ returned[i].kind = "JobResult"
                    /\ Cardinality({ k \in 1..Len(returned) :
                                       returned[k].kind = "JobResult"
                                       /\ returned[k].job = jobs[i] }) = 1

\* C2 witness: a batch of two has returned, one job succeeded and one failed.
C2_Witness ==
    /\ command = "sync"
    /\ call = "idle"
    /\ Len(jobs) = 2
    /\ Len(returned) = 2
    /\ returned[1].success
    /\ ~returned[2].success

\* C3: a job never makes more than retry_count attempts, and a job whose
\* attempts all failed has made exactly retry_count attempts when it returns
\* its outcome, which has success = false and attempts = retry_count.
C3_ExactlyRetryCountAttempts ==
    Executing =>
        \A j \in 1..Len(jobs) :
            /\ tried[j] <= retry_count
            /\ (pc[j] = "done" /\ ~outcome[j].success) =>
                  /\ tried[j] = retry_count
                  /\ outcome[j].attempts = retry_count

\* C3 witness: a job failed after two attempts, the last one a timeout.
C3_Witness ==
    /\ Executing
    /\ retry_count = 2
    /\ \E j \in 1..Len(jobs) :
          /\ pc[j] = "done"
          /\ ~outcome[j].success
          /\ tried[j] = 2
          /\ delays[j] = 1
          /\ proc[j] = "killed"

SpecNamedIndicators ==
    { "connection refused", "connection timed out", "operation timed out",
      "host key verification failed", "no route to host",
      "ssh: could not resolve hostname" }

\* C7: an inspection whose attempts all end in a connectivity failure is
\* attempted exactly retry_count times, with a delay between consecutive
\* attempts, and only then returns exists = false with the connectivity flag.
C7_ConnectivityRetried ==
    Exploring =>
        \A j \in 1..Len(jobs) :
            (pc[j] = "done" /\ allconn[j]) =>
                /\ tried[j] = retry_count
                /\ delays[j] = (IF retry_count = 0 THEN 0 ELSE retry_count - 1)
                /\ ~outcome[j].exists
                /\ outcome[j].ssh_error

\* C7 witness: two attempts, the last one refused, then the terminal result.
C7_Witness ==
    /\ Exploring
    /\ retry_count = 2
    /\ \E j \in 1..Len(jobs) :
          /\ pc[j] = "done"
          /\ allconn[j]
          /\ tried[j] = 2
          /\ "connection refused" \in outcome[j].error
          /\ outcome[j].ssh_error

\* C8 as stated: a non-zero exit whose stderr holds none of the indicators
\* the specification names is an absence, so no connectivity-error result
\* comes from such an exit.
C8_Original ==
    Exploring =>
        \A j \in 1..Len(jobs) :
            (pc[j] = "done" /\ "ssh connection issue:" \in outcome[j].error) =>
                outcome[j].error \cap SpecNamedIndicators # {}

\* C8 as amended: a non-zero exit whose stderr holds none of the eight
\* indicator phrases of the code is never retried and gives exists = false
\* without the connectivity flag; a connectivity-error result that comes from
\* an exit always carries one of the eight phrases.
C8_AbsenceIsTerminal ==
    Exploring =>
        \A j \in 1..Len(jobs) :
            /\ ~plainRetried[j]
            /\ (pc[j] = "done" /\ "ssh connection issue:" \in outcome[j].error) =>
                  outcome[j].error \cap SshIndicators # {}
            /\ (pc[j] = "done" /\ ~outcome[j].exists /\ ~outcome[j].ssh_error) =>
                  outcome[j].error \cap SshIndicators = {}

\* C8 witness: "No such file or directory" on the first attempt, with a
\* retry still available: the absence result, after one attempt and no delay.
C8_Witness ==
    /\ Exploring
    /\ retry_count = 2
    /\ \E j \in 1..Len(jobs) :
          /\ pc[j] = "done"
          /\ outcome[j].error = {"no such file or directory"}
          /\ ~outcome[j].exists
          /\ ~outcome[j].ssh_error
          /\ tried[j] = 1
          /\ delays[j] = 0

\* C9: the accumulator holds every outcome ever returned, in order; between
\* calls get_summary gives total = descriptors submitted so far, successful =
\* accumulated outcomes with success, failed = total - successful.
C9_SummaryCumulative ==
    /\ results = allReturned
    /\ call = "idle" =>
          /\ get_summary.total = submitted
          /\ get_summary.successful =
                Cardinality({ i \in 1..Len(allReturned) : allReturned[i].success })
          /\ get_summary.failed = get_summary.total - get_summary.successful

\* C9 witness: two batches have returned, the first outcome a success and the
\* second a failure.
C9_Witness ==
    /\ call = "idle"
    /\ Len(results) = 2
    /\ Len(returned) = 1
    /\ results[1].success
    /\ ~results[2].success
    /\ get_summary = [total |-> 2, successful |-> 1, failed |-> 1]

\* a job waits for admission although fewer than K jobs are in flight
FreePermitWanted ==
    /\ call # "idle"
    /\ Waiting # {}
    /\ Cardinality(InFlight) < max_parallel_jobs

\* C10: no permit leaks (permits free plus jobs in flight is always K), and
\* whenever a job waits while fewer than K are in flight, a waiting job is
\* eventually admitted (only an admission ends that situation: a batch call
\* cannot return while a job waits).
C10_PermitReleased ==
    /\ [](call # "idle" => sem + Cardinality(InFlight) = max_parallel_jobs)
    /\ FreePermitWanted ~> ~FreePermitWanted

\* C10 witness: a job that exhausted its attempts has returned, a permit is
\* free again and another job still waits for it.
C10_Witness ==
    /\ Executing
    /\ max_parallel_jobs = 1
    /\ sem = 1
    /\ Waiting # {}
    /\ \E j \in 1..Len(jobs) : pc[j] = "done" /\ ~outcome[j].success

\* C11: in the job execution engine a task that is not waiting for its
\* process has no process running (a timed-out one was killed), and the
\* timed-out attempt is counted: a retry follows only while attempts are
\* left, and the timeout outcome reports attempts = retry_count.
C11_TimeoutKills ==
    Executing =>
        \A j \in 1..Len(jobs) :
            /\ pc[j] # "running" => proc[j] # "running"
            /\ proc[j] = "killed" /\ pc[j] \in {"sleeping", "done"} =>
                  /\ attempts[j] >= 1
                  /\ tried[j] = attempts[j]
                  /\ pc[j] = "sleeping" => attempts[j] < retry_count
                  /\ pc[j] = "done" =>
                        outcome[j] = TimeoutResult(j, retry_count)

\* C11 witness: a second attempt timed out and was killed, which ended the job.
C11_Witness ==
    /\ Executing
    /\ retry_count = 2
    /\ \E j \in 1..Len(jobs) :
          /\ pc[j] = "done"
          /\ proc[j] = "killed"
          /\ delays[j] = 1
          /\ outcome[j].return_code = -1

\* C12: in the inspection engine no process of a task runs on while the task
\* is not waiting for it (between attempts, or once its result is returned).
C12_NoProcessLeftRunning ==
    Exploring =>
        \A j \in 1..Len(jobs) :
            pc[j] # "running" => proc[j] \notin {"running", "abandoned"}

\* C13: while a batch call runs, every step (an exit, a timeout with its
\* kill, an exception, a retry) changes the position, the process and the
\* outcome of one task at most: no job is cancelled, killed or given another
\* outcome by what happens to another job.
C13_JobsIndependent ==
    [][ (call # "idle" /\ call' = call) =>
           \A j \in Jobs : \A k \in Jobs \ {j} :
              \/ <<pc[j], attempts[j], proc[j], outcome[j], tried[j]>>
                    = <<pc'[j], attempts'[j], proc'[j], outcome'[j], tried'[j]>>
              \/ <<pc[k], attempts[k], proc[k], outcome[k], tried[k]>>
                    = <<pc'[k], attempts'[k], proc'[k], outcome'[k], tried'[k]>> ]_vars

\* C13 witness: one job timed out for good and its process was killed while
\* the process of another job of the batch is still running.
C13_Witness ==
    /\ Executing
    /\ \E j \in 1..Len(jobs) : \E k \in 1..Len(jobs) :
          /\ j # k
          /\ pc[j] = "done" /\ proc[j] = "killed"
          /\ outcome[j] = TimeoutResult(j, retry_count)
          /\ pc[k] = "running" /\ proc[k] = "running"

\* C14: every task of a batch ends with an outcome of its own job (a
\* JobResult in execute_jobs, a file_info in explore_jobs), whatever failed,
\* and execute_jobs returns a list of JobResults only.
C14_NoExceptionEscapes ==
    /\ \A j \in 1..Len(jobs) :
          pc[j] = "done" =>
             /\ outcome[j].kind = (IF Executing THEN "JobResult" ELSE "file_info")
             /\ outcome[j].job = jobs[j]
    /\ \A i \in 1..Len(allReturned) : allReturned[i].kind = "JobResult"

\* C14 witness: execute_jobs returned the outcome of a job whose last attempt
\* raised an exception before the process was launched.
C14_Witness ==
    /\ call = "idle"
    /\ \E i \in 1..Len(allReturned) :
          /\ allReturned[i].kind = "JobResult"
          /\ allReturned[i].stderr = {"exception text"}
          /\ ~allReturned[i].success

(***************************************************************************)
(* Claims about the incremental archiver.                                  *)
(***************************************************************************)
\* the containers of an endpoint
ContainersOf(h) == { p \in ArchivePaths : p[1] = h /\ containers[p].exists }

\* a non-forced run of h is under way; the last run of h was non-forced and
\* completed, and since it began the tree of h gained exactly the files D
SinceCompletedRun(h, D) ==
    /\ apc[h] # "idle"
    /\ ~aforce[h]
    /\ ~achanged[h]
    /\ based[h]
    /\ delta[h] = D

\* C4: in every reachable state, every relative path of an endpoint's persisted
\* tracked-file set is a member of at least one container of that endpoint
\* (no file is marked archived without having been written to a container).
C4_TrackedIsArchived ==
    \A h \in Hosts : \A p \in load_tracked_files(h) :
        \E c \in ContainersOf(h) : p \in containers[c].members

\* C5: when a non-forced run of an endpoint completed and the tree has not
\* changed since, a second non-forced run selects zero files (and so creates no
\* container, leaves the tracking file alone and reports count 0).
C5_SecondRunSelectsNothing ==
    \A h \in Hosts : SinceCompletedRun(h, {}) => asel[h] = {}

\* C6: when exactly one file was added after a completed non-forced run and
\* nothing else changed, the next non-forced run selects exactly that file
\* (count 1) and creates one new container whose only member is the file's
\* path relative to the base directory.
C6_OneNewFileOneContainer ==
    \A h \in Hosts : \A f \in Files :
        SinceCompletedRun(h, {f}) =>
            /\ asel[h] = {f}
            /\ apc[h] \in {"written", "saved"} =>
                  /\ anew[h]
                  /\ containers[apath[h]].members = {RelPath(f)}

\* the directories the loop of compress_all_hosts has still to visit
ToVisit == { dtodo[i] : i \in 1..Len(dtodo) }

\* C15: compress_all_hosts stores an entry for every directory it listed,
\* whatever happened to the others: a run that raised gives its endpoint
\* success = false, an error string and file_count 0 and the loop goes on, a
\* run that returned gives its endpoint what it returned, and the call returns
\* only when every listed directory has its entry.
C15_FailureIsPerEndpoint ==
    dpc # "idle" =>
        /\ DOMAIN dresults = dlisting \ ToVisit
        /\ dpc = "returned" => dtodo = <<>>
        /\ \A h \in DOMAIN dresults :
              /\ aresult[h].kind = "raised" => dresults[h] = FailureEntry
              /\ aresult[h].kind = "returned" =>
                    dresults[h] = SuccessEntry(aresult[h].archive, aresult[h].count)

\* C15 witness: the run of one endpoint raised, the run of the other endpoint
\* came after it and archived a file, and the call returned both entries.
C15_Witness ==
    /\ dpc = "returned"
    /\ \E h \in dlisting : \E g \in dlisting \ {h} :
          /\ dresults[h] = FailureEntry
          /\ aresult[g].kind = "returned"
          /\ dresults[g].success
          /\ dresults[g].file_count = 1

\* C16: no step of an archive run removes a path from the tracked set of an
\* endpoint, whether the run succeeds, raises or finds nothing.
C16_TrackedNeverShrinks ==
    [][ \A h \in Hosts :
           \A p \in load_tracked_files(h) :
              p \in { Strip(trackfile'[h].lines[i]) : i \in 1..Len(trackfile'[h].lines) }
       ]_vars

\* C17: a run that creates a container writes to a path where no container
\* was: an existing container is never opened for writing again.
C17_ContainersImmutable ==
    \A h \in Hosts : apc[h] \in {"opened", "written", "saved"} => anew[h]

\* C18: after a run that ended between writing its container and saving the
\* tracking file, the next non-forced run of the endpoint selects the same
\* files again and writes them to a new container.
C18_RedoneInNewContainer ==
    \A h \in Hosts :
        (apc[h] # "idle" /\ ~aforce[h] /\ ~achanged[h] /\ redo[h] # {}) =>
            /\ redo[h] \subseteq asel[h]
            /\ apc[h] \in {"opened", "written", "saved"} => anew[h]

\* no file of the endpoint qualifies for a run in the given mode
NoFileQualifies(h, force) ==
    IF force THEN \A f \in local : f.host # h
    ELSE \A f \in local : f.host = h => RelPath(f) \in load_tracked_files(h)

C20_ForceSelectsAll ==
    \A h \in Hosts :
        apc[h] = "selected" /\ aforce[h] => asel[h] = { f \in local : f.host = h }

\* C20 witness: a forced run selected a file whose path is tracked.
C20_Witness ==
    \E h \in Hosts :
        /\ apc[h] = "selected"
        /\ aforce[h]
        /\ \E f \in asel[h] : RelPath(f) \in load_tracked_files(h)

(***************************************************************************)
(* More claims about the engines.                                          *)
(***************************************************************************)
\* C22: during an explore_jobs call at most max_parallel_jobs inspections are
\* in flight (admitted and not yet returned, their attempts and retry delays
\* included), whatever the number of descriptors; the gate is the call's own:
\* it has max_parallel_jobs permits, less those the inspections in flight hold.
C22_ExploreGate ==
    Exploring =>
       /\ Cardinality(InFlight) <= max_parallel_jobs
       /\ sem = max_parallel_jobs - Cardinality(InFlight)

\* C22 witness: an explore_jobs call with every permit taken, one inspection
\* in its retry delay and another descriptor waiting at the gate.
C22_Witness ==
    /\ Exploring
    /\ Cardinality(InFlight) = max_parallel_jobs
    /\ sem = 0
    /\ \E j \in InFlight : pc[j] = "sleeping"
    /\ Waiting # {}

\* C23: an inspection result that carries the connectivity-error flag is
\* returned only after retry_count attempts were made for the descriptor.
C23_FlagOnlyAfterAllAttempts ==
    Exploring =>
       \A j \in 1..Len(jobs) :
          (pc[j] = "done" /\ outcome[j].ssh_error) => tried[j] = retry_count

\* C27: under the fairness of BatchSpec every batch call, execute_jobs or
\* explore_jobs, eventually returns.
C27_BatchReturns == (call # "idle") ~> (call = "idle")

\* C27 witness: a batch of at least two descriptors behind a gate of one
\* permit, every one of them having used all its attempts and slept between
\* them, is about to return.
C27_Witness ==
    /\ call # "idle"
    /\ Len(jobs) >= 2
    /\ max_parallel_jobs = 1
    /\ retry_count >= 2
    /\ AllDone
    /\ \A j \in 1..Len(jobs) : tried[j] = retry_count /\ delays[j] = retry_count - 1

\* C30: the outcome of a job that gives up is that of the step that ends it:
\* the exit code and stderr of the attempt that just exited, the timeout text
\* with return code -1 for the attempt that just timed out, the exception text
\* with return code -1 for the attempt that just raised.
C30_OutcomeOfLastAttempt ==
    [][\A j \in Jobs :
          /\ \A x \in RsyncExits :
                (ExecAttemptEnds(j, x) /\ x.rc # 0 /\ pc'[j] = "done") =>
                   /\ ~outcome'[j].success
                   /\ outcome'[j].return_code = x.rc
                   /\ outcome'[j].stderr = x.err
          /\ (ExecTimeout(j) /\ pc'[j] = "done") =>
                /\ ~outcome'[j].success
                /\ outcome'[j].return_code = -1
                /\ outcome'[j].stderr = {"timeout after"}
          /\ (ExecBegin(j) /\ pc'[j] = "done" /\ tried'[j] # tried[j]) =>
                /\ ~outcome'[j].success
                /\ outcome'[j].return_code = -1
                /\ outcome'[j].stderr = {"exception text"}]_vars

\* C30 witness: a job gave up after more than one attempt, the last of which
\* exited with a non-zero status.
C30_Witness ==
    /\ Executing
    /\ \E j \in 1..Len(jobs) :
          /\ pc[j] = "done"
          /\ tried[j] = retry_count
          /\ retry_count >= 2
          /\ proc[j] = "exited"
          /\ ~outcome[j].success
          /\ outcome[j].return_code = 23

(***************************************************************************)
(* Claims about attempts, permits, directories and the order of outcomes.  *)
(***************************************************************************)
\* C31: whenever an attempt of a job launches its rsync process, on the first
\* attempt as on a retry, in a dry run as in a normal run, the job's local
\* destination directory exists: it was made in the same step, before the launch.
C31_DirBeforeEveryLaunch ==
    [][\A j \in Jobs :
          (call = "execute" /\ proc'[j] = "running" /\ pc[j] = "admitted")
              => LocalPath(jobs[j]) \in localdirs']_vars

\* a retry in a dry run launched its process, a delay after the first attempt,
\* and the directory is there
C31_Witness ==
    /\ dry_run
    /\ \E j \in Jobs :
          /\ pc[j] = "running"
          /\ attempts[j] >= 2
          /\ delays[j] >= 1
          /\ LocalPath(jobs[j]) \in localdirs

\* C32: for every retry_count >= 0 a job that has its outcome was attempted at
\* least once: a process launch was tried for it, and neither its outcome nor
\* any outcome of the accumulator has attempts = 0.
C32_AttemptedAtLeastOnce ==
    /\ \A j \in Jobs :
          (call = "execute" /\ pc[j] = "done")
              => (tried[j] >= 1 /\ outcome[j].attempts >= 1)
    /\ \A i \in 1..Len(results) : results[i].attempts >= 1

\* C33: a job of execute_jobs holds its permit from its admission to its
\* terminal outcome: beginning a retry delay gives no permit back, the job
\* leaves the delay for its next attempt without asking for a permit again,
\* and a waiting job is admitted only while fewer than K jobs, the sleeping
\* ones counted, are between admission and outcome.
C33_PermitKeptThroughDelays ==
    [][Executing =>
          \A j \in Jobs :
              /\ (pc[j] \in {"admitted", "running"} /\ pc'[j] = "sleeping")
                    => sem' = sem
              /\ pc[j] = "sleeping"
                    => /\ pc'[j] \in {"sleeping", "admitted"}
                       /\ pc'[j] = "admitted" => sem' = sem
              /\ (pc[j] \in {"admitted", "running", "sleeping"} /\ pc'[j] # "done")
                    => pc'[j] \in {"admitted", "running", "sleeping"}
              /\ (pc[j] = "waiting" /\ pc'[j] = "admitted")
                    => /\ Cardinality(InFlight) < max_parallel_jobs
                       /\ sem' = max_parallel_jobs - Cardinality(InFlight) - 1]_vars

\* every permit is held by a job in its retry delay while another job waits
C33_Witness ==
    /\ Executing
    /\ sem = 0
    /\ Waiting # {}
    /\ \A j \in InFlight : pc[j] = "sleeping" /\ tried[j] >= 1

\* what C34 says of one outcome: it is a success exactly when its return code
\* is 0 and its attempts are between 1 and retry_count
SuccessIffZero(r) ==
    r.success <=> (r.return_code = 0 /\ 1 <= r.attempts /\ r.attempts <= retry_count)

\* C34: with retry_count >= 1, the attempt of a job whose process exits with
\* status 0 ends the job in that step, with a successful outcome whose attempts
\* is the index of that attempt; the job makes no further attempt and sleeps
\* no further delay; and every outcome, of a task or in the accumulator, is a
\* success exactly when its return code is 0 with 1 <= attempts <= retry_count.
C34_FirstZeroExitEnds ==
    /\ [](retry_count >= 1 =>
            /\ \A j \in Jobs :
                  (Executing /\ pc[j] = "done") => SuccessIffZero(outcome[j])
            /\ \A i \in 1..Len(results) : SuccessIffZero(results[i]))
    /\ [][retry_count >= 1 =>
            \A j \in Jobs :
               /\ (\E x \in RsyncExits : x.rc = 0 /\ ExecAttemptEnds(j, x))
                     => /\ pc'[j] = "done"
                        /\ outcome'[j].success
                        /\ outcome'[j].return_code = 0
                        /\ outcome'[j].attempts = tried[j]
               /\ (Executing /\ pc[j] = "done" /\ pc'[j] # "none")
                     => /\ pc'[j] = "done"
                        /\ outcome'[j] = outcome[j]
                        /\ tried'[j] = tried[j]
                        /\ delays'[j] = delays[j]]_vars

\* with two attempts allowed, one job succeeded at its first attempt and made
\* no second one, and another succeeded at its second attempt
C34_Witness ==
    /\ retry_count = 2
    /\ call = "idle"
    /\ Len(results) = 2
    /\ results[1].success /\ results[1].attempts = 1
    /\ results[2].success /\ results[2].attempts = 2

\* the (host, application) pair of the i-th descriptor of the batch
PairOf(i) == <<jobs[i].hostname, jobs[i].app_name>>

\* C36: what explore_jobs returns has exactly one entry per distinct
\* (host, application) pair of the submitted descriptors, and the entry of a
\* pair is the result of the last descriptor, in input order, with that pair.
C36_LastDescriptorWins ==
    [][ExploreReturn =>
          /\ DOMAIN returned' = { PairOf(i) : i \in 1..Len(jobs) }
          /\ \A i \in 1..Len(jobs) :
                (\A m \in (i + 1)..Len(jobs) : PairOf(m) # PairOf(i))
                    => /\ returned'[PairOf(i)].remote_path = jobs[i].remote_path
                       /\ returned'[PairOf(i)].exists = outcome[i].exists
                       /\ returned'[PairOf(i)].error = outcome[i].error
                       /\ returned'[PairOf(i)].ssh_error = outcome[i].ssh_error]_vars

\* two descriptors of the same application of the same host were inspected:
\* the mapping has the one entry, which is about the second remote path
C36_Witness ==
    /\ command = "explore"
    /\ call = "idle"
    /\ Len(jobs) = 2
    /\ PairOf(1) = PairOf(2)
    /\ DOMAIN returned = { PairOf(2) }
    /\ returned[PairOf(2)].remote_path = jobs[2].remote_path
    /\ jobs[1].remote_path # jobs[2].remote_path

\* how many times the block b is in the sequence of blocks
Count(blocks, b) == Cardinality({ i \in 1..Len(blocks) : blocks[i] = b })

\* the failed outcomes of the accumulator, in its order
FailuresSoFar == SelectSeq(results, LAMBDA r : r.success = FALSE)

\* C37: a call of write_failure_log made while the accumulator holds a failed
\* outcome keeps what the log held as a prefix and appends, after its header,
\* one block per failed outcome of the accumulator, in the accumulator's
\* order, those of earlier batches and those already logged included: every
\* such call adds one more copy of the block of each failure.
C37_LogAppendsAllFailures ==
    [][(WriteFailureLog /\ FailuresSoFar # <<>>) =>
          LET old == logfile.blocks
              new == logfile'.blocks
              n == Len(FailuresSoFar)
          IN  /\ logfile'.exists
              /\ Len(new) = Len(old) + 1 + n
              /\ SubSeq(new, 1, Len(old)) = old
              /\ new[Len(old) + 1].kind = "header"
              /\ \A i \in 1..n :
                    /\ new[Len(old) + 1 + i].kind = "failure"
                    /\ new[Len(old) + 1 + i].remote_path = FailuresSoFar[i].job.remote_path
                    /\ new[Len(old) + 1 + i].attempts = FailuresSoFar[i].attempts
                    /\ new[Len(old) + 1 + i].return_code = FailuresSoFar[i].return_code
              /\ \A i \in 1..n :
                    Count(new, LogBlock(FailuresSoFar[i]))
                        >= Count(old, LogBlock(FailuresSoFar[i])) + 1]_vars

\* the first batch had a failure and the second had none: two calls were made
\* and the block of that failure is in the log twice
C37_Witness ==
    /\ call = "idle"
    /\ Len(results) = 2
    /\ ~results[1].success
    /\ results[2].success
    /\ Len(logfile.blocks) = 4
    /\ logfile.blocks[1].kind = "header"
    /\ logfile.blocks[3].kind = "header"
    /\ Count(logfile.blocks, LogBlock(results[1])) = 2

\* C39: the list execute_jobs returns is in the order of the submitted
\* descriptors, the i-th outcome being the one the task of the i-th descriptor
\* produced, in whatever order the tasks completed; and the accumulator gains
\* the outcomes of the batch at its end, in that same order.
C39_OutcomesInSubmissionOrder ==
    [][ExecReturn =>
          /\ Len(returned') = Len(jobs)
          /\ \A i \in 1..Len(jobs) :
                /\ returned'[i] = outcome[i]
                /\ returned'[i].job = jobs[i]
                /\ results'[Len(results) + i] = outcome[i]
          /\ Len(results') = Len(results) + Len(jobs)
          /\ SubSeq(results', 1, Len(results)) = results]_vars

\* the second job of a batch completed before the first, and the returned
\* list and the accumulator hold the outcome of the first job first
C39_Witness ==
    /\ command = "sync"
    /\ call = "idle"
    /\ outOfOrder
    /\ Len(returned) = 2
    /\ returned[1].job = Descriptor(1)
    /\ returned[2].job = Descriptor(2)
    /\ results = returned
    /\ returned[1].attempts = 2
    /\ returned[2].attempts = 1

\* the sum of the sizes of the records
RECURSIVE SizeSum(_)
SizeSum(records) ==
    IF records = <<>> THEN 0 ELSE Head(records).size_bytes + SizeSum(Tail(records))

\* what C40 says of one inspection result
Consistent(r) ==
    /\ r.exists => (r.error = {"<None>"} /\ ~r.ssh_error)
    /\ r.ssh_error => (~r.exists /\ r.file_count = 0 /\ r.total_size_bytes = 0)
    /\ r.exists =>
          /\ r.file_count = Len(r.files)
          /\ r.total_size_bytes = SizeSum(r.files)
          /\ \A i \in 1..Len(r.files) : ~r.files[i].is_directory

\* C40: every inspection result, as a task returns it and as explore_jobs
\* hands it on, is consistent: exists implies no error and no connectivity
\* flag; the flag implies exists = false with no file and size 0; and with
\* exists, file_count is the number of file records and total_size_bytes the
\* sum of their sizes, no record being a directory.
C40_InspectionResultConsistent ==
    /\ \A j \in Jobs : (Exploring /\ pc[j] = "done") => Consistent(outcome[j])
    /\ (command = "explore" /\ call = "idle" /\ jobs # <<>>)
          => \A k \in DOMAIN returned : Consistent(returned[k])

\* an inspection found a directory line and two files: two records, whose
\* sizes 1536 and 8 make the total
C40_Witness ==
    \E j \in Jobs :
        /\ Exploring
        /\ pc[j] = "done"
        /\ outcome[j].exists
        /\ Len(outcome[j].raw_output) = 3
        /\ outcome[j].file_count = 2
        /\ outcome[j].total_size_bytes = 1544

(***************************************************************************)
(* Claims about the failure log.                                           *)
(***************************************************************************)
\* C21: a call of write_failure_log made while the accumulator holds no failed
\* outcome creates and modifies nothing: not the log file, not its directory,
\* and the accumulator is as it was.
C21_NoFailureNoEffect ==
    [][(WriteFailureLog /\ FailedResults = <<>>) =>
          /\ logdir' = logdir
          /\ logfile' = logfile
          /\ results' = results]_vars

(***************************************************************************)
(* Claims about archive runs of different endpoints.                       *)
(***************************************************************************)
PathsOf(S) == { RelPath(f) : f \in S }

\* what a run of endpoint h has in hand is what a run made alone would have
AsIfAlone(h) ==
    /\ apc[h] \in {"selected", "opened", "written"} => asel[h] = Selected(h, aforce[h])
    /\ apc[h] \in {"opened", "written", "saved"} =>
          /\ apath[h][1] = h
          /\ containers[apath[h]].exists
          /\ containers[apath[h]].members \subseteq PathsOf(asel[h])
    /\ trackfile[h].exists => trackfile[h] = save_tracked_files(PathsOf(AllFiles(h)))
    /\ \A p \in ArchivePaths :
          p[1] = h => containers[p].members \subseteq PathsOf(AllFiles(h))

\* a step of the run of endpoint h leaves everything of endpoint g as it is
LeavesAlone(h, g) ==
    (apc'[h] # apc[h]) =>
       /\ trackfile'[g] = trackfile[g]
       /\ \A p \in ArchivePaths : p[1] = g => containers'[p] = containers[p]
       /\ <<apc'[g], aforce'[g], asel'[g], apath'[g]>> = <<apc[g], aforce[g], asel[g], apath[g]>>

\* C24: archive runs of two different endpoints are independent: each step of
\* a run changes only the tracking file, the containers and the locals of its
\* own endpoint, and however the steps of the runs interleave each run selects,
\* writes and tracks what it would if it ran alone.
C24_EndpointsIndependent ==
    /\ [](\A h \in Hosts : AsIfAlone(h))
    /\ [][\A h \in Hosts : \A g \in Hosts \ {h} : LeavesAlone(h, g)]_vars

\* C24 witness: the runs of the two endpoints are under way at the same time,
\* in the same second, each with files to archive; one has written its
\* container, the other has its own open.
C24_Witness ==
    /\ apc["flp1"] = "written"
    /\ apc["flp2"] = "opened"
    /\ asel["flp1"] # {}
    /\ asel["flp2"] # {}
    /\ apath["flp1"][2] = apath["flp2"][2]

(***************************************************************************)
(* Claims about the commands.                                              *)
(***************************************************************************)
\* the exit status of the command, its compress_all_hosts call having returned
ExitStatus == IF command = "sync" THEN run_sync_status ELSE run_compress_status

\* C25: the sync and the compress command exit with a non-zero status whenever
\* a job failed or the archive step of an endpoint reported success = false.
C25_FailureGivesNonZero ==
    dpc = "returned" =>
       ((get_summary.failed > 0 \/ \E h \in DOMAIN dresults : ~dresults[h].success)
           => ExitStatus # 0)

\* the path is one of the lines of the endpoint's tracking file
Persisted(h, path) ==
    /\ trackfile[h].exists
    /\ \E i \in 1..Len(trackfile[h].lines) : trackfile[h].lines[i] = path

\* C35: a non-forced archive run selects no file whose relative path is in
\* the persisted tracking set of its endpoint when the run begins, whatever
\* happened to the file since the path was tracked (removed, brought again).
C35_TrackedPathNeverSelected ==
    [][\A f \in Files :
          (Persisted(f.host, RelPath(f)) /\ ArchiveBegin(f.host, FALSE))
              => f \notin asel'[f.host]]_vars

\* the tracked set of the endpoint as it is read after the step
TrackedAfter(h) ==
    IF ~trackfile'[h].exists THEN {}
    ELSE { Strip(trackfile'[h].lines[i]) : i \in 1..Len(trackfile'[h].lines) } \ {<<>>}

\* C38: when a forced run that created its container saves the tracking file,
\* the tracked set becomes the previous set united with the relative paths of
\* the files the run archived (the members of its container): nothing that was
\* tracked is dropped, whether or not the file still exists, and nothing else
\* is added.
C38_ForcedRunOnlyAdds ==
    [][\A h \in Hosts :
          (ArchiveTrack(h) /\ aforce[h])
              => TrackedAfter(h) = load_tracked_files(h) \cup containers[apath[h]].members]_vars

\* C26: listing the archives (the list-archives command with the manager it
\* builds, list_archives, print_archive_summary) creates, modifies and deletes
\* nothing in the container storage: no container, no tracking file, no
\* directory.
C26_CatalogReadOnly ==
    [][RunListArchives =>
          /\ containers' = containers
          /\ trackfile' = trackfile
          /\ archive_dir' = archive_dir]_vars

(***************************************************************************)
(* Claims about the utility functions.                                     *)
(***************************************************************************)
\* the fields of a line: its words
Fields(line) == Split(line)

\* the place in the line where the n-th field begins
RECURSIVE FieldStart(_, _, _)
FieldStart(line, n, i) ==
    IF i > Len(line) THEN i
    ELSE IF line[i] \in Whitespace THEN FieldStart(line, n, i + 1)
    ELSE IF n = 1 THEN i
    ELSE IF i < Len(line) /\ line[i + 1] \notin Whitespace THEN FieldStart(line, n, i + 1)
    ELSE FieldStart(line, n - 1, i + 1)

\* a well-formed line of a file that is no directory: nine fields or more, an
\* integer size, permissions that do not begin with d; no total or error line
WellFormedFile(line) ==
    /\ Len(Fields(line)) >= 9
    /\ Fields(line)[1] \notin WordsWithD \cup {"total", "ls:"}
    /\ Fields(line)[5] \in IntWords

\* the name on the line, whole: all that follows the eighth field
NameOn(line) == SubSeq(line, FieldStart(line, 9, 1), Len(line))

\* one record per well-formed file line, in the order of the lines
RECURSIVE Expected(_)
Expected(text) ==
    IF text = <<>> THEN <<>>
    ELSE (IF WellFormedFile(Head(text))
          THEN << [name |-> NameOn(Head(text)), size_bytes |-> int(Fields(Head(text))[5])] >>
          ELSE <<>>) \o Expected(Tail(text))

NameAndSize(records) ==
    [i \in 1..Len(records) |-> [name |-> records[i].name, size_bytes |-> records[i].size_bytes]]

\* C28: parse_ls_output returns one record per well-formed non-directory line,
\* in input order, and nothing else, and the name of each record is the name
\* on its line, kept whole.
C28_OneRecordPerFileLine ==
    lastcall.fn = "parse_ls_output" =>
       NameAndSize(lastcall.value) = Expected(lastcall.arg)

\* the unit the claim gives a size: the largest whose power of 1024 does not
\* exceed it, PB at most
UnitOf(size_bytes) ==
    <<"B", "KB", "MB", "GB", "TB", "PB">>[(IF Len(size_bytes) > 6 THEN 6 ELSE Len(size_bytes))]

\* C29: human_readable_size gives 0 as "0 B"; a positive size in the largest
\* unit of B, KB, MB, GB, TB, PB whose power of 1024 does not exceed it; bytes
\* without a decimal and every other unit with exactly one, the number being
\* the size divided by that power, rounded to the tenth; 1536 as "1.5 KB" and
\* 1099511627776 as "1.0 TB".
C29_BinaryUnits ==
    lastcall.fn = "human_readable_size" =>
       LET size == lastcall.arg
           text == lastcall.value
           k == (IF Len(size) > 6 THEN 6 ELSE Len(size)) - 1
           whole == ValueOf(SubSeq(size, 1, Len(size) - k))
       IN  /\ size = <<0>> => text = [int |-> 0, dec |-> <<>>, unit |-> "B"]
           /\ text.unit = UnitOf(size)
           /\ text.unit = "B" => text.dec = <<>> /\ text.int = whole
           /\ text.unit # "B" =>
                 /\ Len(text.dec) = 1
                 /\ text.dec[1] \in 0..9
                 /\ \/ text.int = whole
                    \/ text.int = whole + 1 /\ text.dec = <<0>> /\ size[Len(size) - k + 1] >= 972
           /\ size = <<1, 512>> => text = [int |-> 1, dec |-> <<5>>, unit |-> "KB"]
           /\ size = <<1, 0, 0, 0, 0>> => text = [int |-> 1, dec |-> <<0>>, unit |-> "TB"]

\* C29 witness: a size of 1024 PB or more, which is 1.25 times a power of
\* 1024 and so falls halfway between two tenths, was formatted in PB.
C29_Witness ==
    /\ lastcall.fn = "human_readable_size"
    /\ Len(lastcall.arg) = 7
    /\ lastcall.arg[3] = 256
    /\ lastcall.value.unit = "PB"
    /\ lastcall.value.int >= 1024
    /\ lastcall.value.dec = <<2>>

====
